---------------------------- MODULE Spec2Model ----------------------------
(***************************************************************************)
(* A model of the document store gateway of trolldb                        *)
(* (src/trolldb/database/mongodb.py, class MongoDB) together with the      *)
(* error values it logs and exits with (src/trolldb/errors/errors.py,      *)
(* src/trolldb/database/errors.py).                                        *)
(*                                                                         *)
(* The gateway keeps four class-level fields.  Every call of a method is   *)
(* one action; a call that ends in sys.exit() is modelled as a call whose  *)
(* SystemExit is intercepted by the caller (as the test-suite does with    *)
(* pytest.raises), so the class-level fields survive the call.             *)
(***************************************************************************)
EXTENDS Integers, Sequences, FiniteSets, TLC

VARIABLES
    client,            \* MongoDB.__client
    database_config,   \* MongoDB.__database_config
    main_collection,   \* MongoDB.__main_collection
    main_database,     \* MongoDB.__main_database
    live_clients,      \* driver side: the motor clients created and not yet closed
    created,           \* driver side: number of motor clients created so far
    round_trips,       \* driver side: the store calls the last call awaited
    outcome,           \* how the last call ended (return / SystemExit / exception)
    log,               \* the loguru records emitted by the last call
    result,            \* the value the last call returned (None when it returned none)
    context,           \* the mongodb_context in progress, if any
    documents,         \* store side: the documents of the main collection
    pipelines,         \* the Pipelines object a caller is building
    errors,            \* the ResponseError objects and the message lists they hold
    calls,             \* the initialize calls in flight, each at one of its awaits
    recorder           \* record_messages: its position in the message stream

vars == <<client, database_config, main_collection, main_database,
          live_clients, created, round_trips, outcome, log, result,
          context, documents, pipelines, errors, calls, recorder>>

gateway == <<client, database_config, main_collection, main_database>>

-----------------------------------------------------------------------------
(* Bounds *)

\* the number of motor clients one behaviour may create
MaxClients == 3

\* the same, for behaviours that also make lookups and enter contexts
MaxGatewayClients == 2

-----------------------------------------------------------------------------
(* Values *)

\* Python's None
None == [kind |-> "None"]

\* errno.EIO and errno.ENODATA (Linux)
EIO == 5
ENODATA == 61

GoodUrl == "mongodb://localhost:28017"
BadUrl == "mongodb://invalid_url_that_does_not_exist:8000"

\* The store behind GoodUrl: database name -> its collection names.
ServerCollections ==
    [admin |-> {"system.version"},
     config |-> {"system.sessions"},
     local |-> {"startup_log"},
     mock_database |-> {"mock_collection"},
     another_test_database |-> {"another_test_collection"}]

\* Whether the forced round trip to url can succeed.  Nothing listens on
\* BadUrl; the server behind GoodUrl may or may not answer within the timeout.
RoundTripOutcomes(url) == IF url = GoodUrl THEN {TRUE, FALSE} ELSE {FALSE}

\* DatabaseConfig: a named tuple of four fields, compared field by field.
DatabaseConfig(db, coll, url, timeout) ==
    [main_database_name |-> db, main_collection_name |-> coll,
     url |-> url, timeout |-> timeout]

Configs ==
    { DatabaseConfig(db, coll, url, timeout) :
        db \in {"mock_database", "another_test_database", " "},
        coll \in {"mock_collection", " "},
        url \in {GoodUrl, BadUrl},
        timeout \in {1, 3} }

-----------------------------------------------------------------------------
(* Error values: an ordered mapping status code -> message, as a sequence  *)
(* of <<status, message>> pairs.                                           *)

ResponseError(args) == [dict |-> args]

Client_CloseNotAllowedError ==
    ResponseError(<< <<405, "Calling close() on a client which has not been initialized is not allowed!">> >>)
Client_ReinitializeConfigError ==
    ResponseError(<< <<405, "The client is already initialized with a different database configuration!">> >>)
Client_AlreadyOpenError ==
    ResponseError(<< <<100, "The client has been already initialized with the same configuration.">> >>)
Client_InconsistencyError ==
    ResponseError(<< <<405, "Something must have been wrong as we are in an inconsistent state. The internal database configuration is not empty and is the same as what we just received but the client is None or has been already closed!">> >>)
Client_ConnectionError ==
    ResponseError(<< <<400, "Could not connect to the database with the given URL.">> >>)
Collections_NotFoundError ==
    ResponseError(<< <<404, "Could not find the given collection name inside the specified database.">> >>)
Databases_NotFoundError ==
    ResponseError(<< <<404, "Could not find the given database name.">> >>)

\* A dict of extra information is a set of <<key, value>> pairs; None and
\* the empty dict are both falsy and both written {}.
NoExtra == {}

\* ResponseError.__retrieve_one_from_some with status_code = None
retrieve_one_from_some(err) ==
    IF Len(err.dict) > 1 THEN <<"ValueError", "ValueError">>
    ELSE IF Len(err.dict) = 1 THEN err.dict[1]
    ELSE <<500, "Generic Response Error">>

\* ResponseError.get_error_details: (status, msg + " :=> {extra}" if extra)
get_error_details(err, extra_information) ==
    LET one == retrieve_one_from_some(err) IN
    <<one[1], [text |-> one[2], extra |-> extra_information]>>

LogRecord(level, message) == [level |-> level, message |-> message]

Info(text) == LogRecord("INFO", [text |-> text, extra |-> NoExtra])

\* ResponseError.log_as_warning: the record it emits
log_as_warning(err, extra_information) ==
    LogRecord("WARNING", get_error_details(err, extra_information)[2])

\* ResponseError.sys_exit_log: the record it emits and the SystemExit it raises
sys_exit_log(err, exit_code, extra_information) ==
    [record |-> LogRecord("ERROR", get_error_details(err, extra_information)[2]),
     exit |-> [kind |-> "SystemExit", code |-> exit_code, error |-> err,
               extra |-> extra_information]]

Returned == [kind |-> "return", code |-> 0, error |-> ResponseError(<<>>),
             extra |-> NoExtra]

\* What a call leaves in outcome: the method, its argument and how it ended.
Outcome(op, arg, ending) ==
    [op |-> op, arg |-> arg, kind |-> ending.kind, code |-> ending.code,
     error |-> ending.error, extra |-> ending.extra]

-----------------------------------------------------------------------------
(* The driver *)

\* AsyncIOMotorClient(url, serverSelectionTimeoutMS=timeout * 1000): only a
\* reference, no connection is made until the first access.
AsyncIOMotorClient(id, cfg) ==
    [kind |-> "client", id |-> id, url |-> cfg.url,
     serverSelectionTimeoutMS |-> cfg.timeout * 1000]

\* client.get_database(name)
get_database_handle(cl, name) ==
    [kind |-> "database", client |-> cl.id, name |-> name]

\* database.get_collection(name)
get_collection_handle(db, name) ==
    [kind |-> "collection", client |-> db.client, database |-> db.name,
     name |-> name]

\* the answer of client.list_database_names() when the round trip succeeds
ServerDatabaseNames == DOMAIN ServerCollections

\* One awaited store call: which listing, on which handle, and whether the
\* server answered (otherwise ConnectionFailure / ServerSelectionTimeoutError).
list_database_names_call(cl, ok) ==
    [call |-> "list_database_names", client |-> cl.id, database |-> "", ok |-> ok]

list_collection_names_call(db, ok) ==
    [call |-> "list_collection_names", client |-> db.client, database |-> db.name,
     ok |-> ok]

\* An exception of the driver that the method does not catch.
Raised(exception) == [kind |-> exception, code |-> 0, error |-> ResponseError(<<>>),
                      extra |-> NoExtra]

-----------------------------------------------------------------------------
(* MongoDB.initialize *)

\* check_configs without the comparison's equal branch: any call on a gateway
\* that holds a config is rejected.
check_configs_same_is_reinitialize(cfg) ==
    IF database_config # None THEN "ReinitializeConfigError" ELSE "OK"

\* check_configs without the comparison of the two configs: any call on a
\* connected gateway is taken for a repeated one.
check_configs_ignores_difference(cfg) ==
    IF database_config # None
    THEN IF client # None THEN "AlreadyOpenError" ELSE "InconsistencyError"
    ELSE "OK"

\* The check of the stored configuration that opens initialize.
check_configs(cfg) ==
    IF database_config # None
    THEN IF cfg = database_config
         THEN IF client # None THEN "AlreadyOpenError" ELSE "InconsistencyError"
         ELSE "ReinitializeConfigError"
    ELSE "OK"

\* connection_failure that does not pass the URL on.
connection_failure_without_url(cfg) ==
    sys_exit_log(Client_ConnectionError, EIO, NoExtra)

\* The SystemExit of a failed round trip.
connection_failure(cfg) ==
    sys_exit_log(Client_ConnectionError, EIO, {<<"url", cfg.url>>})

\* existence_check that looks for the collection before the database.
existence_check_collection_first(cfg) ==
    IF \A db \in ServerDatabaseNames :
            cfg.main_collection_name \notin ServerCollections[db]
    THEN "CollectionNotFound"
    ELSE IF cfg.main_database_name \notin ServerDatabaseNames
         THEN "DatabaseNotFound"
         ELSE IF cfg.main_collection_name \notin ServerCollections[cfg.main_database_name]
              THEN "CollectionNotFound"
              ELSE "OK"

\* The two existence checks, in the order the code makes them.
existence_check(cfg) ==
    IF cfg.main_database_name \notin ServerDatabaseNames
    THEN "DatabaseNotFound"
    ELSE IF cfg.main_collection_name \notin ServerCollections[cfg.main_database_name]
         THEN "CollectionNotFound"
         ELSE "OK"

InitLogHead ==
    << Info("Attempt to initialize the MongoDB client ..."),
       Info("Checking the database configs ...") >>

\* an initialize that leaves the main collection handle as it finds it
initialize_main_collection_kept(db, cfg) == main_collection

\* cls.__main_collection = cls.__main_database.get_collection(
\*     database_config.main_collection_name)
initialize_main_collection(db, cfg) == get_collection_handle(db, cfg.main_collection_name)

\* The state and outcome initialize(cfg) ends in; reachable tells whether
\* the round trip of list_database_names() succeeds and reachable2 whether
\* the later one of list_collection_names() does.
initialize(cfg, reachable, reachable2) ==
    LET same == [client |-> client, database_config |-> database_config,
                 main_collection |-> main_collection,
                 main_database |-> main_database,
                 live_clients |-> live_clients, created |-> created]
        check == check_configs(cfg)
        new_client == AsyncIOMotorClient(created + 1, cfg)
        opened == [same EXCEPT !.client = new_client,
                               !.live_clients = live_clients \cup {created + 1},
                               !.created = created + 1]
        log_open == InitLogHead \o << Info("Database configs are OK."),
                                      Info("Attempt to access list of databases ...") >>
        log_db == log_open \o << Info("Accessing the list of databases is successful."),
                                 Info("Checking if the main database name exists ...") >>
        log_coll == log_db \o << Info("The main database name exists."),
                                 Info("Checking if the main collection name exists ...") >>
        db_extra == {<<"database_name", cfg.main_database_name>>}
        coll_extra == db_extra \cup {<<"collection_name", cfg.main_collection_name>>}
        new_db == get_database_handle(new_client, cfg.main_database_name)
        with_db == [opened EXCEPT !.main_database = new_db]
        exists == existence_check(cfg)
        trip1 == <<list_database_names_call(new_client, reachable)>>
        trip2 == trip1 \o <<list_collection_names_call(new_db, reachable2)>>
        Exit(state, trips, e, logs) ==
            [state |-> state, round_trips |-> trips,
             outcome |-> Outcome("initialize", cfg, e.exit),
             log |-> logs \o <<e.record>>]
    IN
    IF check = "AlreadyOpenError"
    THEN [state |-> same, round_trips |-> <<>>,
          outcome |-> Outcome("initialize", cfg, Returned),
          log |-> InitLogHead \o <<log_as_warning(Client_AlreadyOpenError, NoExtra)>>]
    ELSE IF check = "InconsistencyError"
    THEN Exit(same, <<>>, sys_exit_log(Client_InconsistencyError, EIO, NoExtra), InitLogHead)
    ELSE IF check = "ReinitializeConfigError"
    THEN Exit(same, <<>>, sys_exit_log(Client_ReinitializeConfigError, EIO, NoExtra), InitLogHead)
    ELSE IF ~reachable
    THEN Exit(opened, trip1, connection_failure(cfg), log_open)
    ELSE IF exists = "DatabaseNotFound"
    THEN Exit(opened, trip1, sys_exit_log(Databases_NotFoundError, ENODATA, db_extra), log_db)
    ELSE IF ~reachable2
    THEN [state |-> with_db, round_trips |-> trip2,
          outcome |-> Outcome("initialize", cfg, Raised("ServerSelectionTimeoutError")),
          log |-> log_coll]
    ELSE IF exists = "CollectionNotFound"
    THEN Exit(with_db, trip2, sys_exit_log(Collections_NotFoundError, ENODATA, coll_extra), log_coll)
    ELSE [state |-> [with_db EXCEPT
                        !.main_collection = initialize_main_collection(new_db, cfg),
                        !.database_config = cfg],
          round_trips |-> trip2,
          outcome |-> Outcome("initialize", cfg, Returned),
          log |-> log_coll \o << Info("The main collection name exists."),
                                 Info("MongoDB is successfully initialized.") >>]

\* One call of MongoDB.initialize(cfg).
Initialize(cfg) ==
    \E reachable, reachable2 \in RoundTripOutcomes(cfg.url) :
        LET post == initialize(cfg, reachable, reachable2) IN
        /\ post.state.created <= MaxClients
        /\ client' = post.state.client
        /\ database_config' = post.state.database_config
        /\ main_collection' = post.state.main_collection
        /\ main_database' = post.state.main_database
        /\ live_clients' = post.state.live_clients
        /\ created' = post.state.created
        /\ round_trips' = post.round_trips
        /\ outcome' = post.outcome
        /\ log' = post.log
        /\ result' = None
        /\ UNCHANGED <<context, documents, pipelines, errors, calls, recorder>>

\* MongoDB.is_initialized
is_initialized == client # None

-----------------------------------------------------------------------------
(* MongoDB.close *)

CloseLogHead == <<Info("Attempt to close the MongoDB client ...")>>

\* close that ignores a call without a client instead of exiting.
close_silently_ignored ==
    IF client # None
    THEN [client |-> None, database_config |-> None,
          live_clients |-> live_clients \ {client.id},
          outcome |-> Outcome("close", None, Returned),
          log |-> CloseLogHead \o <<Info("The MongoDB client is closed successfully.")>>]
    ELSE [client |-> client, database_config |-> database_config,
          live_clients |-> live_clients,
          outcome |-> Outcome("close", None, Returned),
          log |-> CloseLogHead]

\* The state and outcome close() ends in.
close ==
    IF client # None
    THEN [client |-> None, database_config |-> None,
          live_clients |-> live_clients \ {client.id},
          outcome |-> Outcome("close", None, Returned),
          log |-> CloseLogHead \o <<Info("The MongoDB client is closed successfully.")>>]
    ELSE LET e == sys_exit_log(Client_CloseNotAllowedError, EIO, NoExtra) IN
         [client |-> client, database_config |-> database_config,
          live_clients |-> live_clients,
          outcome |-> Outcome("close", None, e.exit),
          log |-> CloseLogHead \o <<e.record>>]

\* One call of MongoDB.close().
Close ==
    /\ client' = close.client
    /\ database_config' = close.database_config
    /\ live_clients' = close.live_clients
    /\ round_trips' = <<>>
    /\ outcome' = close.outcome
    /\ log' = close.log
    /\ result' = None
    /\ UNCHANGED <<main_collection, main_database, created>>
    /\ UNCHANGED <<context, documents, pipelines, errors, calls, recorder>>

-----------------------------------------------------------------------------
(* The lookups of the gateway *)

\* A name given to a lookup: None or a str.
Str(s) == [kind |-> "str", value |-> s]

LookupDatabaseNames == {"mock_database", "another_test_database", "missing_db"}
LookupCollectionNames == {"mock_collection", "non_existing_collection"}

OptionalNames(names) == {None} \cup { Str(n) : n \in names }

Collections_WrongTypeError ==
    ResponseError(<< <<422, "Both the database and collection name must be None if either one is None.">> >>)

\* a list of names as the value of a call
NamesList(names) == [kind |-> "list", items |-> names]

\* raise err, for a ResponseError
RaisedError(err) == [kind |-> "raise", code |-> 0, error |-> err, extra |-> NoExtra]

\* Whether a round trip made through the stored client can succeed.
ClientRoundTrips == IF client = None THEN {FALSE} ELSE RoundTripOutcomes(client.url)

\* a failed lookup that ends the process instead of raising to the caller
lookup_failure_exits(err, trips) ==
    [ending |-> sys_exit_log(err, ENODATA, NoExtra).exit, result |-> None,
     round_trips |-> trips]

\* raise Databases.NotFoundError and the like: the lookup fails with err
lookup_failure(err, trips) ==
    [ending |-> RaisedError(err), result |-> None, round_trips |-> trips]

\* MongoDB.list_database_names(), awaited; ok tells whether the server answers
list_database_names(ok) ==
    IF client = None
    THEN [ending |-> Raised("AttributeError"), result |-> None, round_trips |-> <<>>]
    ELSE IF ~ok
    THEN [ending |-> Raised("ServerSelectionTimeoutError"), result |-> None,
          round_trips |-> <<list_database_names_call(client, FALSE)>>]
    ELSE [ending |-> Returned, result |-> NamesList(ServerDatabaseNames),
          round_trips |-> <<list_database_names_call(client, TRUE)>>]

\* get_database_value that answers every listed name with the main database
get_database_value_main(database_name) == main_database

\* cls.__client[database_name]
get_database_value(database_name) ==
    get_database_handle(client, database_name.value)

\* MongoDB.get_database(database_name)
get_database(database_name, ok) ==
    IF database_name = None
    THEN [ending |-> Returned, result |-> main_database, round_trips |-> <<>>]
    ELSE LET names == list_database_names(ok) IN
         IF names.ending.kind # "return"
         THEN names
         ELSE IF database_name.value \in names.result.items
         THEN [ending |-> Returned, result |-> get_database_value(database_name),
               round_trips |-> names.round_trips]
         ELSE lookup_failure(Databases_NotFoundError, names.round_trips)

\* get_collection_case that takes a single absent name for "no name given"
get_collection_case_lenient(database_name, collection_name) ==
    IF database_name = None \/ collection_name = None THEN "main" ELSE "lookup"

\* The match on (database_name, collection_name) of get_collection.
get_collection_case(database_name, collection_name) ==
    IF database_name = None /\ collection_name = None THEN "main"
    ELSE IF database_name # None /\ collection_name # None THEN "lookup"
    ELSE "wrong_type"

\* collection_listed that accepts a collection of any database
collection_listed_anywhere(db, collection_name) ==
    \E d \in ServerDatabaseNames : collection_name.value \in ServerCollections[d]

\* collection_name in await db.list_collection_names()
collection_listed(db, collection_name) ==
    collection_name.value \in ServerCollections[db.name]

\* main_collection() that returns the other stored handle
main_collection_returns_database == main_database

\* MongoDB.main_collection()
main_collection_value == main_collection

\* MongoDB.get_collection(database_name, collection_name)
get_collection(database_name, collection_name, ok, ok2) ==
    LET case == get_collection_case(database_name, collection_name) IN
    IF case = "main"
    THEN [ending |-> Returned, result |-> main_collection_value, round_trips |-> <<>>]
    ELSE IF case = "lookup"
    THEN LET db == get_database(database_name, ok)
             trips == db.round_trips \o <<list_collection_names_call(db.result, ok2)>>
         IN
         IF db.ending.kind # "return"
         THEN db
         ELSE IF ~ok2
         THEN [ending |-> Raised("ServerSelectionTimeoutError"), result |-> None,
               round_trips |-> trips]
         ELSE IF collection_listed(db.result, collection_name)
         THEN [ending |-> Returned,
               result |-> get_collection_handle(db.result, collection_name.value),
               round_trips |-> trips]
         ELSE lookup_failure(Collections_NotFoundError, trips)
    ELSE lookup_failure(Collections_WrongTypeError, <<>>)

\* A call that reads the gateway: it assigns none of the class fields and
\* touches no document.
Lookup(op, arg, post) ==
    /\ round_trips' = post.round_trips
    /\ outcome' = Outcome(op, arg, post.ending)
    /\ log' = <<>>
    /\ result' = post.result
    /\ UNCHANGED <<gateway, live_clients, created, context, documents, pipelines, errors, calls>>

\* One awaited call of MongoDB.list_database_names().
ListDatabaseNames ==
    /\ \E ok \in ClientRoundTrips :
        Lookup("list_database_names", None, list_database_names(ok))
    /\ UNCHANGED recorder

\* One call of MongoDB.main_database().
MainDatabase ==
    /\ Lookup("main_database", None,
              [ending |-> Returned, result |-> main_database, round_trips |-> <<>>])
    /\ UNCHANGED recorder

\* One call of MongoDB.main_collection().
MainCollection ==
    /\ Lookup("main_collection", None,
              [ending |-> Returned, result |-> main_collection_value,
               round_trips |-> <<>>])
    /\ UNCHANGED recorder

\* One call of MongoDB.get_database(database_name).
GetDatabase(database_name) ==
    /\ \E ok \in ClientRoundTrips :
        Lookup("get_database", [database_name |-> database_name],
               get_database(database_name, ok))
    /\ UNCHANGED recorder

\* One call of MongoDB.get_collection(database_name, collection_name).
GetCollection(database_name, collection_name) ==
    /\ \E ok, ok2 \in ClientRoundTrips :
        Lookup("get_collection",
               [database_name |-> database_name, collection_name |-> collection_name],
               get_collection(database_name, collection_name, ok, ok2))
    /\ UNCHANGED recorder

-----------------------------------------------------------------------------
(* mongodb_context *)

NoContext == [state |-> "out", cfg |-> None, opened |-> 0]

\* the class fields and the driver's clients as one value
CurrentState ==
    [client |-> client, database_config |-> database_config,
     main_collection |-> main_collection, main_database |-> main_database,
     live_clients |-> live_clients, created |-> created]

ContextLogTail == <<Info("The MongoDB context manager is successfully closed.")>>

\* a finally block that takes a stored config for the sign of an open client
context_finally_by_config(st) ==
    IF st.database_config # None
    THEN [state |-> [st EXCEPT !.client = None, !.database_config = None,
                               !.live_clients = st.live_clients \ {st.client.id}],
          log |-> CloseLogHead
                    \o <<Info("The MongoDB client is closed successfully.")>>
                    \o ContextLogTail]
    ELSE [state |-> st,
          log |-> <<Info("The MongoDB client was not initialized!")>> \o ContextLogTail]

\* The finally block of mongodb_context, run in state st: close() when
\* is_initialized(), a log line otherwise.
context_finally(st) ==
    IF st.client # None
    THEN [state |-> [st EXCEPT !.client = None, !.database_config = None,
                               !.live_clients = st.live_clients \ {st.client.id}],
          log |-> CloseLogHead
                    \o <<Info("The MongoDB client is closed successfully.")>>
                    \o ContextLogTail]
    ELSE [state |-> st,
          log |-> <<Info("The MongoDB client was not initialized!")>> \o ContextLogTail]

\* The class fields and the driver's clients become those of st.
SetState(st) ==
    /\ client' = st.client
    /\ database_config' = st.database_config
    /\ main_collection' = st.main_collection
    /\ main_database' = st.main_database
    /\ live_clients' = st.live_clients
    /\ created' = st.created

\* mongodb_context(cfg) up to its yield: initialize(cfg) and, when that
\* fails, the finally block before the failure reaches the caller.
ContextEnterStep(cfg) ==
    /\ context.state = "out"
    /\ \E reachable, reachable2 \in RoundTripOutcomes(cfg.url) :
        LET post == initialize(cfg, reachable, reachable2)
            entered == post.outcome.kind = "return"
            fin == context_finally(post.state)
        IN
        /\ post.state.created <= MaxClients
        /\ SetState(IF entered THEN post.state ELSE fin.state)
        /\ round_trips' = post.round_trips
        /\ outcome' = Outcome(IF entered THEN "mongodb_context.enter" ELSE "mongodb_context",
                              cfg, post.outcome)
        /\ log' = <<Info("Attempt to open the MongoDB context manager ...")>>
                    \o post.log \o (IF entered THEN <<>> ELSE fin.log)
        /\ result' = None
        /\ context' = [state |-> IF entered THEN "in" ELSE "out", cfg |-> cfg,
                       opened |-> IF post.state.created > created
                                  THEN post.state.created ELSE 0]

\* One entry into mongodb_context(cfg) by a caller other than the recorder.
ContextEnter(cfg) ==
    /\ ContextEnterStep(cfg)
    /\ UNCHANGED <<documents, pipelines, errors, calls, recorder>>

\* The body of the context ends as ending says after emitting body_log
\* and awaiting trips, and the finally block runs.
ContextExitStep(op, arg, ending, trips, body_log) ==
    /\ context.state = "in"
    /\ LET fin == context_finally(CurrentState) IN
        /\ SetState(fin.state)
        /\ round_trips' = trips
        /\ outcome' = Outcome(op, arg, ending)
        /\ log' = body_log \o fin.log
        /\ result' = None
        /\ context' = [context EXCEPT !.state = "out"]

\* The body of a context entered by a caller other than the recorder ends,
\* normally or with an exception.
ContextExit(body_raises) ==
    /\ recorder.pc \in {"idle", "done"}
    /\ ContextExitStep("mongodb_context", context.cfg,
                       IF body_raises THEN Raised("Exception") ELSE Returned,
                       <<>>, <<>>)
    /\ UNCHANGED <<documents, pipelines, errors, calls, recorder>>

-----------------------------------------------------------------------------
(* The message recorder: record_messages and delete_uri_from_collection   *)
(* (src/trolldb/cli.py).  A payload is a mapping, written as a record; a  *)
(* stored document is a payload together with its _id.                     *)

\* the number of messages the subscriber delivers in one behaviour
MaxMessages == 3

FilePayload(uri) == [uri |-> uri, uid |-> "20191103_153936-s1b-ew-hh.tiff"]

DatasetItem(uri) == [uri |-> uri, uid |-> "20191103_153936-s1b-ew-hh.tiff"]

DatasetPayload(uris) ==
    [dataset |-> [i \in DOMAIN uris |-> DatasetItem(uris[i])], platform_name |-> "S1B"]

\* a payload with a uri of its own and nested items
MixedPayload(uri, uris) ==
    [uri |-> uri, dataset |-> [i \in DOMAIN uris |-> DatasetItem(uris[i])]]

\* a payload with neither a uri nor a dataset key
BarePayload == [platform_name |-> "S1B"]

Message(type, data) == [type |-> type, data |-> data]

\* The decoded messages the subscriber may deliver.
Messages ==
    { Message("file", FilePayload("u1")),
      Message("file", FilePayload("u2")),
      Message("file", MixedPayload("u1", <<"u1", "u2">>)),
      Message("file", BarePayload),
      Message("dataset", DatasetPayload(<<"u1">>)),
      Message("dataset", MixedPayload("u1", <<"u1", "u2">>)),
      Message("dataset", BarePayload),
      Message("del", FilePayload("u1")),
      Message("del", FilePayload("u2")),
      Message("del", BarePayload),
      Message("delete", FilePayload("u1")),
      Message("some_unknown_key", BarePayload) }

\* the filter {"uri": uri}
matches_uri(data, uri) == "uri" \in DOMAIN data /\ data.uri = uri

\* the filter {"dataset.uri": uri}: some element of the dataset array has it
matches_dataset_uri(data, uri) ==
    /\ "dataset" \in DOMAIN data
    /\ \E i \in DOMAIN data.dataset : data.dataset[i].uri = uri

\* insert_one that stores one document per item of a dataset payload
insert_one_flattened(docs, data, id) ==
    IF "dataset" \in DOMAIN data
    THEN docs \cup { [_id |-> id * 10 + i, data |-> data.dataset[i]] :
                        i \in DOMAIN data.dataset }
    ELSE docs \cup {[_id |-> id, data |-> data]}

\* collection.insert_one(data): the documents afterwards, the new one
\* carrying the identifier the store assigns to it
insert_one(docs, data, id) == docs \cup {[_id |-> id, data |-> data]}

\* collection.delete_many({"uri": uri})
delete_many_uri(docs, uri) ==
    LET hit == { d \in docs : matches_uri(d.data, uri) } IN
    [documents |-> docs \ hit, deleted_count |-> Cardinality(hit)]

\* delete_many_dataset_uri that compares the first item of the array only
delete_many_dataset_uri_first_item(docs, uri) ==
    LET hit == { d \in docs : /\ "dataset" \in DOMAIN d.data
                              /\ d.data.dataset # <<>>
                              /\ d.data.dataset[1].uri = uri } IN
    [documents |-> docs \ hit, deleted_count |-> Cardinality(hit)]

\* collection.delete_many({"dataset.uri": uri})
delete_many_dataset_uri(docs, uri) ==
    LET hit == { d \in docs : matches_dataset_uri(d.data, uri) } IN
    [documents |-> docs \ hit, deleted_count |-> Cardinality(hit)]

UriInfo(text, uri) == LogRecord("INFO", [text |-> text, extra |-> {<<"uri", uri>>}])

\* delete_uri_from_collection that makes both matches on the collection as
\* it was: a document that matches both ways is counted twice
delete_uri_from_collection_counted_twice(docs, uri) ==
    LET file == delete_many_uri(docs, uri)
        dataset == delete_many_dataset_uri(docs, uri)
    IN [documents |-> file.documents \cap dataset.documents,
        deleted_count |-> file.deleted_count + dataset.deleted_count,
        log |-> <<>>]

\* delete_uri_from_collection that forgets the documents of the first match
\* when it makes the second
delete_uri_from_collection_second_only(docs, uri) ==
    LET file == delete_many_uri(docs, uri)
        dataset == delete_many_dataset_uri(docs, uri)
    IN [documents |-> dataset.documents,
        deleted_count |-> file.deleted_count + dataset.deleted_count,
        log |-> <<>>]

\* delete_uri_from_collection(collection, uri)
delete_uri_from_collection(docs, uri) ==
    LET file == delete_many_uri(docs, uri)
        dataset == delete_many_dataset_uri(file.documents, uri)
    IN [documents |-> dataset.documents,
        deleted_count |-> file.deleted_count + dataset.deleted_count,
        log |-> (IF file.deleted_count = 1
                 THEN <<UriInfo("Deleted one document (file) with uri: ", uri)>>
                 ELSE <<>>)
                \o (IF dataset.deleted_count = 1
                    THEN <<UriInfo("Deleted one document (dataset) with uri: ", uri)>>
                    ELSE <<>>)]

\* a match on the type that takes every type beginning with del for a
\* deletion
message_case_by_prefix(type) ==
    IF type \in {"file", "dataset"} THEN type
    ELSE IF type \in {"del", "delete"} THEN "del"
    ELSE "_"

\* match msg.type: the case of the loop body a message type selects
message_case(type) ==
    IF type \in {"file", "dataset", "del"} THEN type ELSE "_"

\* The body of the loop of record_messages for one decoded message: the
\* documents afterwards, the deletion count (a sequence, empty when the
\* message is no deletion), the store operations awaited, the records
\* logged and how the body ended.
record_message(msg, docs, id) ==
    LET data == msg.data
        case == message_case(msg.type)
        quiet == [documents |-> docs, deletion_count |-> <<>>, log |-> <<>>,
                  ending |-> Returned, inserted |-> 0, operations |-> <<>>]
    IN
    IF case = "file"
    THEN LET stored == [quiet EXCEPT !.documents = insert_one(docs, data, id),
                                     !.inserted = 1,
                                     !.operations = <<"insert_one">>] IN
         IF "uri" \in DOMAIN data
         THEN [stored EXCEPT !.log = <<UriInfo("Inserted file with uri: ", data.uri)>>]
         ELSE [stored EXCEPT !.ending = Raised("KeyError")]
    ELSE IF case = "dataset"
    THEN LET stored == [quiet EXCEPT !.documents = insert_one(docs, data, id),
                                     !.inserted = 1,
                                     !.operations = <<"insert_one">>] IN
         IF "dataset" \in DOMAIN data
         THEN [stored EXCEPT !.log =
                  <<LogRecord("INFO", [text |-> "Inserted dataset with elements: ",
                                       extra |-> {<<"dataset", data.dataset>>}])>>]
         ELSE [stored EXCEPT !.ending = Raised("KeyError")]
    ELSE IF case = "del"
    THEN IF "uri" \in DOMAIN data
         THEN LET deleted == delete_uri_from_collection(docs, data.uri) IN
              [quiet EXCEPT !.documents = deleted.documents,
                            !.deletion_count = <<deleted.deleted_count>>,
                            !.operations = <<"delete_many", "delete_many">>,
                            !.log = deleted.log \o
                                (IF deleted.deleted_count > 1
                                 THEN <<LogRecord("ERROR",
                                          [text |-> "Recorder found multiple deletions for uri: ",
                                           extra |-> {<<"uri", data.uri>>}])>>
                                 ELSE <<>>)]
         ELSE [quiet EXCEPT !.ending = Raised("KeyError")]
    ELSE [quiet EXCEPT !.log =
             <<LogRecord("DEBUG", [text |-> "Don't know what to do with message.",
                                   extra |-> {<<"type", msg.type>>}])>>]

\* for ... in recv() that ends as soon as a del message deleted no document
\* or several
loop_continues_without_anomaly(post) ==
    /\ post.ending.kind = "return"
    /\ post.deletion_count \in {<<>>, <<1>>}

\* Whether the for loop goes on to the next message after a body that
\* ended as post says: only an exception leaves it.
loop_continues(post) == post.ending.kind = "return"

\* an _id that depends on nothing but the collection: two inserts share it
assigned_id_repeated(inserted) == 1

\* the _id insert_one gives a document that has none: a fresh one per insert
assigned_id(inserted) == inserted + 1

IdleRecorder == [pc |-> "idle", collection |-> None, inserted |-> 0, trace |-> <<>>]

\* record_messages(config) up to the yield of its mongodb_context.
RecordStart(cfg) ==
    /\ recorder.pc = "idle"
    /\ ContextEnterStep(cfg)
    /\ recorder' = [recorder EXCEPT !.pc = IF context'.state = "in"
                                           THEN "entered" ELSE "done"]
    /\ UNCHANGED <<documents, pipelines, errors, calls>>

\* The get_collection call that opens the body of record_messages.
RecordGetCollection ==
    /\ recorder.pc = "entered"
    /\ \E ok, ok2 \in ClientRoundTrips :
        LET arg == [database_name |-> Str(context.cfg.main_database_name),
                    collection_name |-> Str(context.cfg.main_collection_name)]
            post == get_collection(arg.database_name, arg.collection_name, ok, ok2)
        IN
        IF post.ending.kind = "return"
        THEN /\ recorder' = [recorder EXCEPT !.pc = "running",
                                             !.collection = post.result]
             /\ Lookup("get_collection", arg, post)
        ELSE /\ ContextExitStep("record_messages", context.cfg, post.ending,
                                post.round_trips, <<>>)
             /\ recorder' = [recorder EXCEPT !.pc = "done"]
             /\ UNCHANGED <<documents, pipelines, errors, calls>>

\* The subscriber delivers msg and the body of the loop handles it; an
\* exception of the body leaves the context and ends record_messages.
RecordMessage(msg) ==
    /\ recorder.pc = "running"
    /\ Len(recorder.trace) < MaxMessages
    /\ UNCHANGED <<pipelines, errors, calls>>
    /\ LET post == record_message(msg, documents, assigned_id(recorder.inserted))
           entry == [msg |-> msg, before |-> documents, after |-> post.documents,
                     deletion_count |-> post.deletion_count, log |-> post.log,
                     ending |-> post.ending.kind, operations |-> post.operations]
       IN
       /\ documents' = post.documents
       /\ IF loop_continues(post)
          THEN /\ recorder' = [recorder EXCEPT !.inserted = @ + post.inserted,
                                               !.trace = Append(@, entry)]
               /\ round_trips' = <<>>
               /\ outcome' = Outcome("record_message", msg, Returned)
               /\ log' = post.log
               /\ result' = None
               /\ UNCHANGED <<gateway, live_clients, created, context>>
          ELSE /\ recorder' = [recorder EXCEPT !.pc = "done",
                                               !.inserted = @ + post.inserted,
                                               !.trace = Append(@, entry)]
               /\ ContextExitStep("record_messages", context.cfg, post.ending,
                                  <<>>, post.log)

\* The subscriber delivers nothing more: the loop and the context end.
RecordEnd ==
    /\ recorder.pc = "running"
    /\ ContextExitStep("record_messages", context.cfg, Returned, <<>>, <<>>)
    /\ recorder' = [recorder EXCEPT !.pc = "done"]
    /\ UNCHANGED <<documents, pipelines, errors, calls>>

-----------------------------------------------------------------------------
(* Aggregation pipelines: src/trolldb/database/pipelines.py, the module    *)
(* the tests import, and src/trolldb/database/piplines.py, the module the  *)
(* queries route imports.  A dict is an ordered sequence of <<key, value>> *)
(* pairs; every Python value carries its type.                             *)

\* the number of stages one Pipelines object is grown to
MaxStages == 2

\* the depth to which the boolean operators are nested
MaxDepth == 2

Number(n) == [kind |-> "int", number |-> n]

Bool(b) == [kind |-> "bool", truth |-> b]

Datetime(t) == [kind |-> "datetime", t |-> t]

List(elements) == [kind |-> "list", elements |-> elements]

Dict(pairs) == [kind |-> "dict", pairs |-> pairs]

\* isinstance(other, list)
is_list(other) == other.kind = "list"

\* The truth value Python gives a value in "if other".
truthy(other) ==
    CASE other.kind = "None" -> FALSE
      [] other.kind = "str" -> other.value # ""
      [] other.kind = "int" -> other.number # 0
      [] other.kind = "bool" -> other.truth
      [] other.kind = "datetime" -> TRUE
      [] other.kind = "list" -> other.elements # <<>>
      [] other.kind = "dict" -> other.pairs # <<>>

\* PipelineBooleanDict(...): a dict with the two operators below
PipelineBooleanDict(pairs) == Dict(pairs)

\* an or that puts the right operand first
PipelineBooleanDict_or_swapped(self, other) ==
    PipelineBooleanDict(<< <<"$or", List(<<other, self>>)>> >>)

\* PipelineBooleanDict.__or__
PipelineBooleanDict_or(self, other) ==
    PipelineBooleanDict(<< <<"$or", List(<<self, other>>)>> >>)

\* PipelineBooleanDict.__and__
PipelineBooleanDict_and(self, other) ==
    PipelineBooleanDict(<< <<"$and", List(<<self, other>>)>> >>)

\* an equality filter that compares with a list as with one value
PipelineAttribute_eq_list_as_value(key, other) ==
    PipelineBooleanDict(<< <<key, other>> >>)

\* PipelineAttribute.__eq__, the same in both modules
PipelineAttribute_eq(key, other) ==
    IF is_list(other)
    THEN PipelineBooleanDict(<< <<"$or",
            List([i \in DOMAIN other.elements |-> Dict(<< <<key, other.elements[i]>> >>)])>> >>)
    ELSE PipelineBooleanDict(<< <<key, other>> >>)

\* {key: {operator: other}}
comparison_leaf(key, operator, other) ==
    Dict(<< <<key, Dict(<< <<operator, other>> >>)>> >>)

\* __aux_operators without the test of the value's truth
aux_operators_any_value(key, other, operator) ==
    IF is_list(other)
    THEN PipelineBooleanDict(<< <<"$or",
            List([i \in DOMAIN other.elements |->
                    comparison_leaf(key, operator, other.elements[i])])>> >>)
    ELSE PipelineBooleanDict(comparison_leaf(key, operator, other).pairs)

\* PipelineAttribute.__aux_operators of pipelines.py
aux_operators(key, other, operator) ==
    IF is_list(other)
    THEN PipelineBooleanDict(<< <<"$or",
            List([i \in DOMAIN other.elements |->
                    comparison_leaf(key, operator, other.elements[i])])>> >>)
    ELSE IF truthy(other)
    THEN PipelineBooleanDict(comparison_leaf(key, operator, other).pairs)
    ELSE PipelineBooleanDict(<<>>)

PipelineAttribute_ge(key, other) == aux_operators(key, other, "$gte")

PipelineAttribute_gt(key, other) == aux_operators(key, other, "$gt")

PipelineAttribute_le(key, other) == aux_operators(key, other, "$lte")

PipelineAttribute_lt(key, other) == aux_operators(key, other, "$lt")

\* PipelineAttribute.__aux_operators of piplines.py: no case for a list
piplines_aux_operators(key, other, operator) ==
    IF truthy(other)
    THEN PipelineBooleanDict(comparison_leaf(key, operator, other).pairs)
    ELSE PipelineBooleanDict(<<>>)

piplines_PipelineAttribute_ge(key, other) == piplines_aux_operators(key, other, "$gte")

piplines_PipelineAttribute_gt(key, other) == piplines_aux_operators(key, other, "$gt")

piplines_PipelineAttribute_le(key, other) == piplines_aux_operators(key, other, "$lte")

piplines_PipelineAttribute_lt(key, other) == piplines_aux_operators(key, other, "$le")

\* The comparison operators of Python, by their symbol.
Comparisons == {"==", ">=", ">", "<=", "<"}

Modules == {"pipelines", "piplines"}

\* PipelineAttribute(key) <symbol> other, as the named module evaluates it
compare_by_operator_name(module, symbol, key, other) ==
    CASE symbol = "==" -> PipelineAttribute_eq(key, other)
      [] symbol = ">=" -> IF module = "pipelines"
                          THEN PipelineAttribute_ge(key, other)
                          ELSE piplines_PipelineAttribute_ge(key, other)
      [] symbol = ">" -> IF module = "pipelines"
                         THEN PipelineAttribute_gt(key, other)
                         ELSE piplines_PipelineAttribute_gt(key, other)
      [] symbol = "<=" -> IF module = "pipelines"
                          THEN PipelineAttribute_le(key, other)
                          ELSE piplines_PipelineAttribute_le(key, other)
      [] symbol = "<" -> IF module = "pipelines"
                         THEN PipelineAttribute_lt(key, other)
                         ELSE piplines_PipelineAttribute_lt(key, other)

\* a += that puts the new stage in front of the others
Pipelines_iadd_in_front(self, other) == << Dict(<< <<"$match", other>> >>) >> \o self

\* Pipelines.__iadd__: self.extend([{"$match": other}])
Pipelines_iadd(self, other) == self \o << Dict(<< <<"$match", other>> >>) >>

\* the nesting depth of a predicate built by the boolean operators
RECURSIVE depth(_)
depth(node) ==
    IF node.pairs # <<>> /\ node.pairs[1][1] \in {"$or", "$and"}
    THEN LET operands == node.pairs[1][2].elements
             deepest == CHOOSE i \in DOMAIN operands :
                            \A j \in DOMAIN operands : depth(operands[j]) <= depth(operands[i])
         IN 1 + depth(operands[deepest])
    ELSE 0

\* The keys and the values the comparisons are applied to.
Keys == {"letter", "start_time"}

Values ==
    { None, Str(""), Number(0), Bool(FALSE), Str("A"), Number(2), Datetime(3),
      List(<<Str("A"), Str("B")>>), List(<<Number(0), None>>) }

\* The predicate nodes the boolean operators are applied to.
Operands ==
    { PipelineBooleanDict(<< <<"number", Number(2)>> >>),
      PipelineBooleanDict(<< <<"kind", Number(1)>> >>),
      PipelineBooleanDict(<< <<"letter", Str("A")>> >>) }

\* The predicates appended to a Pipelines object.
StagePredicates ==
    { PipelineAttribute_eq("platform_name", Str("PA")),
      PipelineAttribute_eq("sensor", List(<<Str("SA"), Str("SB")>>)),
      PipelineAttribute_ge("start_time", Datetime(3)),
      PipelineAttribute_le("end_time", None) }

\* A call that builds a value from its operands and touches nothing else.
Pure(op, arg, value) ==
    /\ result' = value
    /\ outcome' = Outcome(op, arg, Returned)
    /\ log' = <<>>
    /\ round_trips' = <<>>
    /\ UNCHANGED <<gateway, live_clients, created, context, documents, errors, calls, recorder>>

\* PipelineAttribute(key) <symbol> other, evaluated in module
Compare(module, symbol, key, other) ==
    /\ Pure("compare",
            [module |-> module, symbol |-> symbol, key |-> key, other |-> other],
            compare_by_operator_name(module, symbol, key, other))
    /\ UNCHANGED pipelines

\* left | right or left & right; the left operand may be the node the last
\* composition built
Combine(symbol) ==
    \E left \in Operands \cup (IF outcome.op = "combine" THEN {result} ELSE {}),
       right \in Operands :
        LET node == IF symbol = "|" THEN PipelineBooleanDict_or(left, right)
                    ELSE PipelineBooleanDict_and(left, right)
        IN
        /\ depth(node) <= MaxDepth
        /\ Pure("combine", [symbol |-> symbol, left |-> left, right |-> right], node)
        /\ UNCHANGED pipelines

\* pipelines += other
IAdd(other) ==
    /\ Len(pipelines) < MaxStages
    /\ pipelines' = Pipelines_iadd(pipelines, other)
    /\ Pure("iadd", [self |-> List(pipelines), other |-> other], List(pipelines'))

-----------------------------------------------------------------------------
(* The error values: src/trolldb/errors/errors.py.  A ResponseError holds   *)
(* an ordered dict of status code -> message.  A message is a str or a     *)
(* list object, and a list object has an identity: errors.lists[r] is the  *)
(* content of list object r, errors.objects[e] the dict of ResponseError e.*)

\* the number of ResponseError objects the unions of one behaviour make
MaxErrors == 2

\* a reference to the list object r
ListRef(r) == [kind |-> "listref", ref |-> r]

\* a reference to the ResponseError object e
ErrorRef(e) == [kind |-> "error", ref |-> e]

\* a tuple (status_code, message)
ErrorDetails(status_code, message) ==
    [kind |-> "tuple", status_code |-> status_code, message |-> message]

\* The error objects that exist once the modules are imported: the members
\* of the groups Databases and Documents, the error errors_list of the
\* constructor's docstring, which holds a list, and an error whose message
\* is the empty string.
ErrorObjects ==
    [lists |-> << <<"Not Found", "Yet Not Found">> >>,
     objects |->
        << << <<404, Str("Could not find the given database name.")>> >>,
           << <<422, Str("Database name must be either of type str or None.")>> >>,
           << <<404, Str("Could not find any document with the given object id.")>> >>,
           << <<404, ListRef(1)>> >>,
           << <<404, Str("")>> >> >>]

\* ResponsesErrorGroup.members of the groups, in the order of definition
Groups == [Databases |-> <<1, 2>>, Documents |-> <<3>>]

\* _listify(item): the list itself, or the string enclosed in a new list
listify(lists, item) ==
    IF item.kind = "listref" THEN lists[item.ref] ELSE <<item.value>>

\* the truth value of a message: the empty string and the empty list are false
message_truthy(lists, item) ==
    IF item.kind = "listref" THEN lists[item.ref] # <<>> ELSE item.value # ""

\* dict.get(key): the position of key in the ordered dict, 0 when absent
position(dict, key) ==
    IF \E i \in DOMAIN dict : dict[i][1] = key
    THEN CHOOSE i \in DOMAIN dict : dict[i][1] = key
    ELSE 0

\* One pass of the loop of ResponseError.__or__:
\*     self_msg = buff.get(key, None)
\*     buff[key] = _listify(self_msg) if self_msg else []
\*     buff[key].extend(_listify(msg))
\* _listify returns a list object as it is, so a list that buff shares with
\* self is extended in place.
or_item(state, key, msg) ==
    LET i == position(state.buff, key)
        self_msg == IF i = 0 THEN None ELSE state.buff[i][2]
        falsy == i = 0 \/ ~message_truthy(state.lists, self_msg)
        same_list == ~falsy /\ self_msg.kind = "listref"
        target == IF same_list THEN self_msg.ref ELSE Len(state.lists) + 1
        lists == IF same_list THEN state.lists
                 ELSE Append(state.lists, IF falsy THEN <<>> ELSE <<self_msg.value>>)
        extended == [lists EXCEPT ![target] = @ \o listify(lists, msg)]
    IN
    [lists |-> extended,
     buff |-> IF i = 0 THEN Append(state.buff, <<key, ListRef(target)>>)
              ELSE [state.buff EXCEPT ![i] = <<key, ListRef(target)>>]]

RECURSIVE or_items(_, _, _)
or_items(state, items, i) ==
    IF i > Len(items) THEN state
    ELSE or_items(or_item(state, items[i][1], items[i][2]), items, i + 1)

\* ResponseError.__or__: buff = OrderedDict(self.__dict), a copy of the dict
\* that holds the same message objects; the loop over other's items; a new
\* ResponseError(buff).
ResponseError_or(heap, self, other) ==
    LET final == or_items([lists |-> heap.lists, buff |-> heap.objects[self]],
                          heap.objects[other], 1)
    IN [lists |-> final.lists, objects |-> Append(heap.objects, final.buff)]

\* ResponsesErrorGroup.union: buff = None, then buff = v for the first
\* member and buff |= v for the others
RECURSIVE union_members(_, _, _, _)
union_members(heap, buff, members, i) ==
    IF i > Len(members) THEN [heap |-> heap, buff |-> buff]
    ELSE IF buff = None THEN union_members(heap, ErrorRef(members[i]), members, i + 1)
    ELSE LET joined == ResponseError_or(heap, buff.ref, members[i])
         IN union_members(joined, ErrorRef(Len(joined.objects)), members, i + 1)

ResponsesErrorGroup_union(heap, members) == union_members(heap, None, members, 1)

\* ResponseError.__retrieve_one_from_some: the match over
\* (status_code, len(self.__dict))
ResponseError_retrieve_one_from_some(dict, status_code) ==
    IF status_code = None /\ Len(dict) > 1 THEN Raised("ValueError")
    ELSE IF status_code # None /\ Len(dict) >= 1
    THEN IF position(dict, status_code.number) # 0
         THEN [kind |-> "return", status_code |-> status_code.number,
               msg |-> dict[position(dict, status_code.number)][2]]
         ELSE Raised("KeyError")
    ELSE IF Len(dict) = 1
    THEN [kind |-> "return", status_code |-> dict[1][1], msg |-> dict[1][2]]
    ELSE [kind |-> "return", status_code |-> 500, msg |-> Str("Generic Response Error")]

\* str(value) of a key or a value of the extra information
repr(value) == "'" \o value.value \o "'"

\* f"{extra_information}" of a dict
RECURSIVE format_pairs(_, _)
format_pairs(pairs, i) ==
    IF i > Len(pairs) THEN ""
    ELSE (IF i > 1 THEN ", " ELSE "")
            \o "'" \o pairs[i][1] \o "': " \o repr(pairs[i][2])
            \o format_pairs(pairs, i + 1)

format(extra_information) == "{" \o format_pairs(extra_information.pairs, 1) \o "}"

\* ResponseError.get_error_details:
\*     status_code, msg = self.__retrieve_one_from_some(status_code)
\*     return status_code, msg + (f" :=> {extra_information}" if extra_information else "")
\* msg + str is a TypeError when msg is a list.
ResponseError_get_error_details(heap, self, extra_information, status_code) ==
    LET one == ResponseError_retrieve_one_from_some(heap.objects[self], status_code)
        suffix == IF extra_information # None /\ extra_information.pairs # <<>>
                  THEN " :=> " \o format(extra_information) ELSE ""
    IN
    IF one.kind # "return" THEN [ending |-> one, value |-> None]
    ELSE IF one.msg.kind = "listref" THEN [ending |-> Raised("TypeError"), value |-> None]
    ELSE [ending |-> Returned,
          value |-> ErrorDetails(one.status_code, one.msg.value \o suffix)]

\* The arguments get_error_details is called with.
ExtraInformation == {None, Dict(<< <<"url", Str("u")>> >>)}
StatusCodes == {None, Number(404), Number(422)}

\* A call on error objects that leaves the gateway and the store alone.
ErrorCall(op, arg, ending, value) ==
    /\ result' = value
    /\ outcome' = Outcome(op, arg, ending)
    /\ log' = <<>>
    /\ round_trips' = <<>>
    /\ UNCHANGED <<gateway, live_clients, created, context, documents, pipelines, calls, recorder>>

\* self | other
Or(self, other) ==
    /\ Len(errors.objects) < Len(ErrorObjects.objects) + MaxErrors
    /\ errors' = ResponseError_or(errors, self, other)
    /\ ErrorCall("or", [self |-> self, other |-> other], Returned,
                 ErrorRef(Len(errors'.objects)))

\* group.union()
Union(group) ==
    LET joined == ResponsesErrorGroup_union(errors, Groups[group]) IN
    /\ Len(joined.heap.objects) <= Len(ErrorObjects.objects) + MaxErrors
    /\ errors' = joined.heap
    /\ ErrorCall("union", group, Returned, joined.buff)

\* self.get_error_details(extra_information, status_code)
GetErrorDetails(self, extra_information, status_code) ==
    LET details == ResponseError_get_error_details(errors, self, extra_information,
                                                   status_code)
    IN
    /\ ErrorCall("get_error_details",
                 [self |-> self, extra_information |-> extra_information,
                  status_code |-> status_code],
                 details.ending, details.value)
    /\ UNCHANGED errors

-----------------------------------------------------------------------------
(* The queries route: src/trolldb/api/routes/queries.py, and the $match    *)
(* stages as the store evaluates them.                                      *)

\* the position of a value among the values of its type
order_key(value) ==
    CASE value.kind = "datetime" -> value.t
      [] value.kind = "int" -> value.number

\* {field: {operator: bound}} on the value of the field: values of another
\* type than the bound never match
compares(operator, field, bound) ==
    /\ field.kind = bound.kind
    /\ CASE operator = "$gte" -> order_key(field) >= order_key(bound)
         [] operator = "$gt" -> order_key(field) > order_key(bound)
         [] operator = "$lte" -> order_key(field) <= order_key(bound)
         [] operator = "$lt" -> order_key(field) < order_key(bound)

\* {field: value}: every operator of an operator document holds, or the
\* field equals the value
field_matches(field, value) ==
    IF value.kind = "dict"
    THEN \A i \in DOMAIN value.pairs :
            compares(value.pairs[i][1], field, value.pairs[i][2])
    ELSE field = value

\* Whether a document satisfies a query document: every pair of it holds,
\* so the empty document holds for every document.
RECURSIVE matches(_, _)
matches(query, document) ==
    \A i \in DOMAIN query.pairs :
        LET key == query.pairs[i][1]
            value == query.pairs[i][2]
        IN
        IF key = "$or"
        THEN \E j \in DOMAIN value.elements : matches(value.elements[j], document)
        ELSE IF key = "$and"
        THEN \A j \in DOMAIN value.elements : matches(value.elements[j], document)
        ELSE key \in DOMAIN document /\ field_matches(document[key], value)

\* collection.aggregate(pipelines): the documents that pass every $match
aggregate(docs, stages) ==
    { d \in docs : \A i \in DOMAIN stages : matches(stages[i].pairs[1][2], d.data) }

\* get_ids: str(doc["_id"]) of every document, here without their order
get_ids(docs) == { Str(ToString(d._id)) : d \in docs }

Ids(ids) == [kind |-> "ids", ids |-> ids]

QueryDocument(id, platform_name, sensor, start_time, end_time) ==
    [_id |-> id,
     data |-> [platform_name |-> Str(platform_name), sensor |-> Str(sensor),
               start_time |-> Datetime(start_time), end_time |-> Datetime(end_time)]]

\* The documents a test database may hold.
TestDocuments ==
    { QueryDocument(1, "PA", "SA", 1, 2),
      QueryDocument(2, "PA", "SB", 3, 4),
      QueryDocument(3, "PB", "SA", 5, 6) }

\* The query strings of the route, decoded.
Platforms == {None, List(<<Str("PA")>>), List(<<Str("PA"), Str("PB")>>)}

Sensors == {None, List(<<Str("SA")>>)}

Times == {None, Datetime(3), Datetime(4)}

\* The time stage of the route: four comparisons joined by |
time_stage(time_min, time_max) ==
    PipelineBooleanDict_or(
        PipelineBooleanDict_or(
            PipelineBooleanDict_or(
                piplines_PipelineAttribute_ge("start_time", time_min),
                piplines_PipelineAttribute_le("start_time", time_max)),
            piplines_PipelineAttribute_ge("end_time", time_min)),
        piplines_PipelineAttribute_le("end_time", time_max))

\* The body of the route handler: the pipelines it builds and the ids it
\* returns for the documents docs of the collection.
queries(docs, platform, sensor, time_min, time_max) ==
    LET p1 == IF truthy(platform)
              THEN Pipelines_iadd(<<>>, PipelineAttribute_eq("platform_name", platform))
              ELSE <<>>
        p2 == IF truthy(sensor)
              THEN Pipelines_iadd(p1, PipelineAttribute_eq("sensor", sensor))
              ELSE p1
        p3 == IF <<time_min, time_max>> # <<None, None>>
              THEN Pipelines_iadd(p2, time_stage(time_min, time_max))
              ELSE p2
    IN [pipelines |-> p3, ids |-> get_ids(aggregate(docs, p3))]

\* One GET on /queries, answered from the main collection.
Queries(platform, sensor, time_min, time_max) ==
    /\ main_collection # None
    /\ LET answer == queries(documents, platform, sensor, time_min, time_max) IN
        /\ pipelines' = answer.pipelines
        /\ Pure("queries",
                [platform |-> platform, sensor |-> sensor,
                 time_min |-> time_min, time_max |-> time_max],
                Ids(answer.ids))

-----------------------------------------------------------------------------
(* Calls of MongoDB.initialize that overlap.  initialize is a coroutine: it *)
(* runs without interruption from one await to the next and is suspended    *)
(* at its two awaits, the listing of the databases (mongodb.py:162) and the *)
(* listing of the collections (mongodb.py:180), where another call may run. *)

\* the number of initialize calls that may be in flight together
MaxCalls == 2

Calls == 1 .. MaxCalls

\* a call that has not ended: not started, or suspended at an await
Pending == [kind |-> "pending", code |-> 0, error |-> ResponseError(<<>>),
            extra |-> NoExtra]

\* A call: where it stands, its argument, the object whose listing it
\* awaits, how it ended, whether it started while another call was
\* suspended, and the client it created (0 when none).
IdleCall == [pc |-> "idle", cfg |-> None, awaited |-> None, ending |-> Pending,
             overlapped |-> FALSE, opened |-> 0]

\* The configs the overlapping calls are made with.
OverlapConfigs ==
    { DatabaseConfig("mock_database", "mock_collection", GoodUrl, 1),
      DatabaseConfig("mock_database", "mock_collection", GoodUrl, 3),
      DatabaseConfig("another_test_database", "another_test_collection", GoodUrl, 1),
      DatabaseConfig("mock_database", " ", GoodUrl, 1) }

\* the url of the client with identifier id
url_of(id) == calls[CHOOSE k \in Calls : calls[k].opened = id].cfg.url

\* What a step of a call leaves behind apart from the class fields.
CallStep(c, after, trips, records) ==
    /\ calls' = [calls EXCEPT ![c] = after]
    /\ round_trips' = trips
    /\ outcome' = Outcome("initialize", after.cfg, after.ending)
    /\ log' = records
    /\ result' = None
    /\ UNCHANGED <<context, documents, pipelines, errors, recorder>>

\* initialize(cfg) from its first line to its first await (mongodb.py:142-162):
\* the check of the configs, the new client stored in cls.__client, and the
\* call of its list_database_names.
InitializeStart(c, cfg) ==
    /\ calls[c].pc = "idle"
    /\ LET check == check_configs(cfg)
           started == [IdleCall EXCEPT !.cfg = cfg,
                          !.overlapped = \E k \in Calls :
                                            calls[k].pc \in {"listing", "collections"}]
           ended(ending) == [started EXCEPT !.pc = "done", !.ending = ending]
           new_client == AsyncIOMotorClient(created + 1, cfg)
       IN
       IF check = "AlreadyOpenError"
       THEN /\ CallStep(c, ended(Returned), <<>>,
                        InitLogHead \o <<log_as_warning(Client_AlreadyOpenError, NoExtra)>>)
            /\ UNCHANGED <<gateway, live_clients, created>>
       ELSE IF check \in {"InconsistencyError", "ReinitializeConfigError"}
       THEN LET e == sys_exit_log(IF check = "InconsistencyError"
                                  THEN Client_InconsistencyError
                                  ELSE Client_ReinitializeConfigError, EIO, NoExtra)
            IN /\ CallStep(c, ended(e.exit), <<>>, InitLogHead \o <<e.record>>)
               /\ UNCHANGED <<gateway, live_clients, created>>
       ELSE /\ client' = new_client
            /\ live_clients' = live_clients \cup {created + 1}
            /\ created' = created + 1
            /\ CallStep(c, [started EXCEPT !.pc = "listing", !.awaited = new_client,
                                           !.opened = created + 1],
                        <<>>,
                        InitLogHead \o << Info("Database configs are OK."),
                                          Info("Attempt to access list of databases ...") >>)
            /\ UNCHANGED <<database_config, main_collection, main_database>>

\* initialize from the answer of list_database_names to its second await
\* (mongodb.py:162-180): the check of the main database name, the handle
\* got from the client cls.__client holds now, and the call of its
\* list_collection_names.
InitializeListed(c) ==
    /\ calls[c].pc = "listing"
    /\ \E reachable \in RoundTripOutcomes(calls[c].awaited.url) :
        LET call == calls[c]
            cfg == call.cfg
            trip == <<list_database_names_call(call.awaited, reachable)>>
            ended(ending) == [call EXCEPT !.pc = "done", !.awaited = None,
                                          !.ending = ending]
            db_extra == {<<"database_name", cfg.main_database_name>>}
            new_db == get_database_handle(client, cfg.main_database_name)
        IN
        IF ~reachable
        THEN LET e == connection_failure(cfg) IN
             /\ CallStep(c, ended(e.exit), trip, <<e.record>>)
             /\ UNCHANGED <<gateway, live_clients, created>>
        ELSE IF existence_check(cfg) = "DatabaseNotFound"
        THEN LET e == sys_exit_log(Databases_NotFoundError, ENODATA, db_extra) IN
             /\ CallStep(c, ended(e.exit), trip,
                         << Info("Accessing the list of databases is successful."),
                            Info("Checking if the main database name exists ..."),
                            e.record >>)
             /\ UNCHANGED <<gateway, live_clients, created>>
        ELSE IF client = None
        THEN /\ CallStep(c, ended(Raised("AttributeError")), trip,
                         << Info("Accessing the list of databases is successful."),
                            Info("Checking if the main database name exists ...") >>)
             /\ UNCHANGED <<gateway, live_clients, created>>
        ELSE /\ main_database' = new_db
             /\ CallStep(c, [call EXCEPT !.pc = "collections", !.awaited = new_db], trip,
                         << Info("Accessing the list of databases is successful."),
                            Info("Checking if the main database name exists ..."),
                            Info("The main database name exists."),
                            Info("Checking if the main collection name exists ...") >>)
             /\ UNCHANGED <<client, database_config, main_collection, live_clients,
                            created>>

\* initialize from the answer of list_collection_names to its end
\* (mongodb.py:180-186): the check of the main collection name, the handle
\* got from the database cls.__main_database holds now, and the config.
InitializeCollections(c) ==
    /\ calls[c].pc = "collections"
    /\ \E reachable2 \in RoundTripOutcomes(url_of(calls[c].awaited.client)) :
        LET call == calls[c]
            cfg == call.cfg
            trip == <<list_collection_names_call(call.awaited, reachable2)>>
            ended(ending) == [call EXCEPT !.pc = "done", !.awaited = None,
                                          !.ending = ending]
            coll_extra == {<<"database_name", cfg.main_database_name>>,
                           <<"collection_name", cfg.main_collection_name>>}
        IN
        IF ~reachable2
        THEN /\ CallStep(c, ended(Raised("ServerSelectionTimeoutError")), trip, <<>>)
             /\ UNCHANGED <<gateway, live_clients, created>>
        ELSE IF cfg.main_collection_name \notin ServerCollections[call.awaited.name]
        THEN LET e == sys_exit_log(Collections_NotFoundError, ENODATA, coll_extra) IN
             /\ CallStep(c, ended(e.exit), trip, <<e.record>>)
             /\ UNCHANGED <<gateway, live_clients, created>>
        ELSE /\ main_collection' = initialize_main_collection(main_database, cfg)
             /\ database_config' = cfg
             /\ CallStep(c, ended(Returned), trip,
                         << Info("The main collection name exists."),
                            Info("MongoDB is successfully initialized.") >>)
             /\ UNCHANGED <<client, main_database, live_clients, created>>

-----------------------------------------------------------------------------
(* The gateway driven by any sequence of initialize and close calls *)

Init ==
    /\ client = None
    /\ database_config = None
    /\ main_collection = None
    /\ main_database = None
    /\ live_clients = {}
    /\ created = 0
    /\ round_trips = <<>>
    /\ outcome = Outcome("none", None, Returned)
    /\ log = <<>>
    /\ result = None
    /\ context = NoContext
    /\ documents = {}
    /\ pipelines = <<>>
    /\ errors = ErrorObjects
    /\ calls = [c \in Calls |-> IdleCall]
    /\ recorder = IdleRecorder

Next ==
    \/ \E cfg \in Configs : Initialize(cfg)
    \/ Close

Spec == Init /\ [][Next]_vars

\* The configs of the test-suite: the valid one, one per way initialize can
\* fail, and a second valid one that differs in its timeout only.
GatewayConfigs ==
    { DatabaseConfig("mock_database", "mock_collection", GoodUrl, 1),
      DatabaseConfig("mock_database", "mock_collection", GoodUrl, 3),
      DatabaseConfig("mock_database", " ", GoodUrl, 1),
      DatabaseConfig(" ", "mock_collection", GoodUrl, 1),
      DatabaseConfig("mock_database", "mock_collection", BadUrl, 3) }

\* The gateway driven by its whole interface: initialize, close, the lookups
\* and mongodb_context around any of them.
GatewayNext ==
    \/ \E cfg \in GatewayConfigs :
            Initialize(cfg) /\ created' <= MaxGatewayClients
    \/ Close
    \/ ListDatabaseNames
    \/ MainDatabase
    \/ MainCollection
    \/ \E database_name \in OptionalNames(LookupDatabaseNames) :
            GetDatabase(database_name)
    \/ \E database_name \in OptionalNames(LookupDatabaseNames),
          collection_name \in OptionalNames(LookupCollectionNames) :
            GetCollection(database_name, collection_name)
    \/ \E cfg \in GatewayConfigs :
            ContextEnter(cfg) /\ created' <= MaxGatewayClients
    \/ \E body_raises \in BOOLEAN : ContextExit(body_raises)

GatewaySpec == Init /\ [][GatewayNext]_vars

\* record_messages run once on a fresh process, for any config of the
\* test-suite and any stream of at most MaxMessages messages.
RecorderNext ==
    \/ \E cfg \in GatewayConfigs : RecordStart(cfg)
    \/ RecordGetCollection
    \/ \E msg \in Messages : RecordMessage(msg)
    \/ RecordEnd

RecorderSpec == Init /\ [][RecorderNext]_vars

\* The pipeline classes used on their own: comparisons, compositions and
\* appends in any order.
PipelineNext ==
    \/ \E module \in Modules, symbol \in Comparisons, key \in Keys, other \in Values :
            Compare(module, symbol, key, other)
    \/ \E symbol \in {"|", "&"} : Combine(symbol)
    \/ \E other \in StagePredicates : IAdd(other)

PipelineSpec == Init /\ [][PipelineNext]_vars

\* The API server: the gateway initialized inside its mongodb_context and
\* the main collection holding any of the test documents.
QueriesInit ==
    LET cfg == DatabaseConfig("mock_database", "mock_collection", GoodUrl, 1)
        opened == AsyncIOMotorClient(1, cfg)
    IN
    /\ client = opened
    /\ database_config = cfg
    /\ main_database = get_database_handle(opened, cfg.main_database_name)
    /\ main_collection = get_collection_handle(main_database, cfg.main_collection_name)
    /\ live_clients = {1}
    /\ created = 1
    /\ round_trips = <<>>
    /\ outcome = Outcome("none", None, Returned)
    /\ log = <<>>
    /\ result = None
    /\ context = [state |-> "in", cfg |-> cfg, opened |-> 1]
    /\ documents \in SUBSET TestDocuments
    /\ pipelines = <<>>
    /\ errors = ErrorObjects
    /\ calls = [c \in Calls |-> IdleCall]
    /\ recorder = IdleRecorder

QueriesNext ==
    \E platform \in Platforms, sensor \in Sensors, time_min \in Times, time_max \in Times :
        Queries(platform, sensor, time_min, time_max)

QueriesSpec == QueriesInit /\ [][QueriesNext]_vars

\* The error values used on their own: unions of any two error objects,
\* unions of the groups, and the retrieval of the details of any object.
ErrorsNext ==
    \/ \E self \in DOMAIN errors.objects, other \in DOMAIN errors.objects : Or(self, other)
    \/ \E group \in DOMAIN Groups : Union(group)
    \/ \E self \in DOMAIN errors.objects, extra_information \in ExtraInformation,
          status_code \in StatusCodes :
            GetErrorDetails(self, extra_information, status_code)

ErrorsSpec == Init /\ [][ErrorsNext]_vars

\* Calls of initialize on a fresh gateway, interleaved at their awaits in
\* any order.
OverlapNext ==
    \/ \E c \in Calls, cfg \in OverlapConfigs : InitializeStart(c, cfg)
    \/ \E c \in Calls : InitializeListed(c)
    \/ \E c \in Calls : InitializeCollections(c)

OverlapSpec == Init /\ [][OverlapNext]_vars

-----------------------------------------------------------------------------
(* Properties of the gateway lifecycle *)

\* the records lg holds rec
HasRecord(lg, rec) == \E i \in DOMAIN lg : lg[i] = rec

\* the records lg hold one of level level
HasLevel(lg, level) == \E i \in DOMAIN lg : lg[i].level = level

\* the ERROR record and SystemExit of err.sys_exit_log(code, extra) are in (o, lg)
ExitedWith(o, lg, err, code, extra) ==
    /\ o.kind = "SystemExit"
    /\ o.code = code
    /\ o.error = err
    /\ o.extra = extra
    /\ HasRecord(lg, LogRecord("ERROR", get_error_details(err, extra)[2]))

\* C1: in every state reachable by initialize and close calls (failed
\* initialize calls included), the stored connection handle and the stored
\* config are both present or both absent.
C1_ClientAndConfigTogether ==
    (client = None) <=> (database_config = None)

\* C2: at most one connection handle has been opened and not yet closed; a
\* stored handle is replaced only after a successful close.
C2_SingleLiveConnection ==
    Cardinality(live_clients) <= 1

\* C3: initialize with a config equal to the active one while connected
\* changes no stored state, returns normally and logs the AlreadyOpenError
\* message as a warning, not as an error.
C3_SameConfigIsNoOp ==
    [][ (/\ outcome'.op = "initialize"
         /\ client # None
         /\ database_config # None
         /\ outcome'.arg = database_config)
        => (/\ UNCHANGED <<gateway, live_clients, created>>
            /\ round_trips' = <<>>
            /\ outcome'.kind = "return"
            /\ HasRecord(log', LogRecord("WARNING",
                               get_error_details(Client_AlreadyOpenError, NoExtra)[2]))
            /\ ~HasLevel(log', "ERROR")) ]_vars

C3_Witness ==
    /\ outcome.op = "initialize"
    /\ outcome.kind = "return"
    /\ client # None
    /\ outcome.arg = database_config
    /\ HasLevel(log, "WARNING")

\* C4: initialize with a config different from the active one while connected
\* exits with ReinitializeConfigError and code EIO, and leaves the connection,
\* the config and the primary handles as they were.
C4_DifferentConfigRejected ==
    [][ (/\ outcome'.op = "initialize"
         /\ client # None
         /\ database_config # None
         /\ outcome'.arg # database_config)
        => (/\ UNCHANGED <<gateway, live_clients, created>>
            /\ round_trips' = <<>>
            /\ ExitedWith(outcome', log', Client_ReinitializeConfigError, EIO, NoExtra)) ]_vars

C4_Witness ==
    /\ outcome.op = "initialize"
    /\ outcome.error = Client_ReinitializeConfigError
    /\ client # None
    /\ database_config # None
    /\ outcome.arg # database_config
    /\ client.url = database_config.url

\* C5: initialize entered in an inconsistent state (a stored config with no
\* connection, or a connection with no stored config) exits with
\* InconsistencyError and opens no connection.
C5_InconsistencyDetected ==
    [][ (/\ outcome'.op = "initialize"
         /\ \/ database_config # None /\ client = None
            \/ database_config = None /\ client # None)
        => (/\ ExitedWith(outcome', log', Client_InconsistencyError, EIO, NoExtra)
            /\ UNCHANGED <<client, live_clients, created>>) ]_vars

\* C6: the gateway becomes Initialized only by a successful initialize and
\* Uninitialized only by a successful close; a failed initialize leaves it
\* Uninitialized.
C6_TwoTransitions ==
    [][ /\ (~is_initialized /\ is_initialized')
            => (outcome'.op = "initialize" /\ outcome'.kind = "return")
        /\ (is_initialized /\ ~is_initialized')
            => (outcome'.op = "close" /\ outcome'.kind = "return")
        /\ (~is_initialized /\ outcome'.op = "initialize" /\ outcome'.kind # "return")
            => ~is_initialized' ]_vars

\* C7: when the database listing of initialize is obtained and the config's
\* database name is not in it, initialize exits with Databases.NotFoundError
\* and code ENODATA without asking for any collection listing; when the name
\* is in it and the collection listing of that database is obtained without
\* the config's collection name, it exits with Collections.NotFoundError and
\* code ENODATA.
C7_ExistenceChecks ==
    [][ (/\ outcome'.op = "initialize"
         /\ round_trips' # <<>>
         /\ round_trips'[1].ok)
        => LET cfg == outcome'.arg
               db_extra == {<<"database_name", cfg.main_database_name>>}
               coll_extra == db_extra \cup {<<"collection_name", cfg.main_collection_name>>}
           IN
           /\ cfg.main_database_name \notin ServerDatabaseNames
               => /\ ExitedWith(outcome', log', Databases_NotFoundError, ENODATA, db_extra)
                  /\ Len(round_trips') = 1
           /\ (/\ cfg.main_database_name \in ServerDatabaseNames
               /\ Len(round_trips') = 2
               /\ round_trips'[2].ok
               /\ cfg.main_collection_name \notin ServerCollections[cfg.main_database_name])
               => ExitedWith(outcome', log', Collections_NotFoundError, ENODATA, coll_extra) ]_vars

C7_Witness ==
    /\ outcome.op = "initialize"
    /\ outcome.code = ENODATA
    /\ outcome.error = Collections_NotFoundError
    /\ outcome.arg.main_database_name \in ServerDatabaseNames
    /\ Len(round_trips) = 2
    /\ main_database # None
    /\ main_database.name = outcome.arg.main_database_name

\* C8: when the round trip of the database listing fails or times out,
\* initialize exits with ConnectionError carrying the attempted URL and code
\* EIO, and the call stores no config and no primary handle.
C8_ConnectionFailure ==
    [][ (/\ outcome'.op = "initialize"
         /\ round_trips' # <<>>
         /\ ~round_trips'[1].ok)
        => (/\ ExitedWith(outcome', log', Client_ConnectionError, EIO,
                          {<<"url", outcome'.arg.url>>})
            /\ Len(round_trips') = 1
            /\ database_config' = None
            /\ UNCHANGED <<main_database, main_collection>>) ]_vars

C8_Witness ==
    /\ outcome.op = "initialize"
    /\ outcome.error = Client_ConnectionError
    /\ outcome.extra = {<<"url", BadUrl>>}
    /\ round_trips # <<>>
    /\ ~round_trips[1].ok
    /\ database_config = None

\* C9: close() with no active connection exits with CloseNotAllowedError and
\* code EIO and changes no stored state.
C9_CloseWithoutClient ==
    [][ (outcome'.op = "close" /\ client = None)
        => (/\ UNCHANGED <<gateway, live_clients, created>>
            /\ ExitedWith(outcome', log', Client_CloseNotAllowedError, EIO, NoExtra)) ]_vars

C9_Witness ==
    /\ outcome.op = "close"
    /\ outcome.kind = "SystemExit"
    /\ outcome.error = Client_CloseNotAllowedError
    /\ client = None

\* C10: after a successful close() the connection handle, the config, the
\* primary database handle and the primary collection handle are all absent.
C10_CloseClearsAll ==
    (outcome.op = "close" /\ outcome.kind = "return")
        => (/\ client = None
            /\ database_config = None
            /\ main_database = None
            /\ main_collection = None)


-----------------------------------------------------------------------------
(* Properties of the lookups and of mongodb_context, stated for GatewaySpec *)

\* the operations that need a live connection
LookupOps ==
    {"list_database_names", "get_database", "get_collection", "main_database",
     "main_collection"}

\* the gateway after a successful initialize and before the next close
Initialized == client # None /\ database_config # None

\* the primary handles as initialize resolves them from the stored config
PrimaryDatabase == get_database_handle(client, database_config.main_database_name)

PrimaryCollection ==
    get_collection_handle(PrimaryDatabase, database_config.main_collection_name)

\* the status code and message a caller that handles err reports
StatusOf(err) == get_error_details(err, NoExtra)[1]

\* C11: while no connection handle is stored, none of list_database_names,
\* get_database, get_collection, main_database and main_collection returns a
\* handle: each of them ends with an error.
C11_NoAccessWhileUninitialized ==
    (outcome.op \in LookupOps /\ client = None)
        => ~(outcome.kind = "return" /\ result # None)

\* C12: when mongodb_context is left, because its body completed, its body
\* raised or its initialize failed, no connection handle is stored, no
\* client was opened and left, the handle the body left stored is closed
\* and so is the one the context opened.
C12_ContextReleasesConnection ==
    [][ outcome'.op = "mongodb_context"
        => (/\ client' = None
            /\ database_config' = None
            /\ live_clients' \subseteq live_clients
            /\ (context.state = "in" /\ client # None)
                  => client.id \notin live_clients'
            /\ context'.opened \notin live_clients'
            /\ context'.state = "out") ]_vars

\* a context left because its initialize failed after it had made a client
C12_Witness ==
    /\ outcome.op = "mongodb_context"
    /\ outcome.kind = "SystemExit"
    /\ context.opened > 0
    /\ client = None

\* C13: in an initialized gateway, get_collection with both names absent
\* returns the primary collection of the stored config and awaits no store
\* call.
C13_BothAbsentIsPrimary ==
    [][ (/\ outcome'.op = "get_collection"
         /\ outcome'.arg = [database_name |-> None, collection_name |-> None]
         /\ Initialized)
        => (/\ outcome'.kind = "return"
            /\ result' = PrimaryCollection
            /\ result' = main_collection
            /\ round_trips' = <<>>
            /\ UNCHANGED <<gateway, live_clients, created>>) ]_vars

C13_Witness ==
    /\ outcome.op = "get_collection"
    /\ outcome.arg = [database_name |-> None, collection_name |-> None]
    /\ Initialized
    /\ result = PrimaryCollection

ListingsAnswered(trips) == \A i \in DOMAIN trips : trips[i].ok

LookupErrors ==
    {Databases_NotFoundError, Collections_NotFoundError, Collections_WrongTypeError}

\* C17: a get_database or get_collection call that fails with a
\* NotFoundError or the WrongTypeError raises it to the caller, exits no
\* process, logs nothing and changes none of the stored fields, so an
\* initialized gateway stays initialized with the same handles.
C17_LookupFailureRecoverable ==
    [][ (/\ outcome'.op \in {"get_database", "get_collection"}
         /\ outcome'.error \in LookupErrors)
        => (/\ outcome'.kind = "raise"
            /\ outcome'.code = 0
            /\ ~HasLevel(log', "ERROR")
            /\ UNCHANGED <<gateway, live_clients, created, context>>
            /\ Initialized => Initialized') ]_vars

\* a lookup succeeds right after one that failed with NotFoundError would
\* be two steps; the state after the failed one, still initialized
C17_Witness ==
    /\ outcome.op = "get_database"
    /\ outcome.error = Databases_NotFoundError
    /\ outcome.kind = "raise"
    /\ Initialized
    /\ main_database = PrimaryDatabase
    /\ main_collection = PrimaryCollection


-----------------------------------------------------------------------------
(* Properties of the recorder, stated for RecorderSpec *)

\* the documents of docs a deletion by uri is meant to remove
MatchingUri(docs, uri) ==
    { d \in docs : matches_uri(d.data, uri) \/ matches_dataset_uri(d.data, uri) }

\* a payload as stored, without the identifier the store assigned
Content(docs) == { d.data : d \in docs }

\* C18: when no document matches uri u, a file message with uri u followed
\* by a del message with uri u leaves no document matching u, and the count
\* that deletion returns is 1.
C18_FileThenDelRoundTrip ==
    \A i \in 1..(Len(recorder.trace) - 1) :
        LET file == recorder.trace[i]
            del == recorder.trace[i + 1]
        IN
        (/\ file.msg.type = "file"
         /\ "uri" \in DOMAIN file.msg.data
         /\ del.msg.type = "del"
         /\ "uri" \in DOMAIN del.msg.data
         /\ del.msg.data.uri = file.msg.data.uri
         /\ MatchingUri(file.before, file.msg.data.uri) = {})
            => (/\ del.deletion_count = <<1>>
                /\ MatchingUri(del.after, file.msg.data.uri) = {}
                /\ del.ending = "return")

\* the round trip made beside a document of another uri, which stays
C18_Witness ==
    /\ Len(recorder.trace) = 3
    /\ recorder.trace[1].msg = Message("file", FilePayload("u2"))
    /\ recorder.trace[2].msg = Message("file", FilePayload("u1"))
    /\ recorder.trace[3].msg = Message("del", FilePayload("u1"))
    /\ recorder.trace[3].deletion_count = <<1>>
    /\ Content(documents) = {FilePayload("u2")}

\* C19: a file message and a dataset message each add exactly one document
\* to the collection, the documents held before stay, and the content of
\* the new document is the payload of the message as it came, a dataset
\* array still nested in it.
C19_OneDocumentVerbatim ==
    \A i \in DOMAIN recorder.trace :
        LET entry == recorder.trace[i] IN
        entry.msg.type \in {"file", "dataset"}
            => (/\ entry.before \subseteq entry.after
                /\ Cardinality(entry.after \ entry.before) = 1
                /\ \A d \in entry.after \ entry.before : d.data = entry.msg.data
                /\ i = Len(recorder.trace) => documents = entry.after)

\* a dataset message of two items is held as one document
C19_Witness ==
    /\ Len(recorder.trace) = 2
    /\ recorder.trace[1].msg.type = "file"
    /\ recorder.trace[2].msg = Message("dataset", MixedPayload("u1", <<"u1", "u2">>))
    /\ recorder.trace[2].ending = "return"
    /\ Cardinality(documents) = 2
    /\ MixedPayload("u1", <<"u1", "u2">>) \in Content(documents)

\* C20: a del message with uri u removes the documents whose uri is u and
\* the documents with a dataset item whose uri is u, removes no other, and
\* returns the number removed by the first match plus the number removed by
\* the second.
C20_DelRemovesBothMatches ==
    \A i \in DOMAIN recorder.trace :
        LET entry == recorder.trace[i]
            uri == entry.msg.data.uri
            top == { d \in entry.before : matches_uri(d.data, uri) }
            nested == { d \in entry.before \ top : matches_dataset_uri(d.data, uri) }
        IN
        (entry.msg.type = "del" /\ "uri" \in DOMAIN entry.msg.data)
            => (/\ entry.after = entry.before \ MatchingUri(entry.before, uri)
                /\ entry.deletion_count = <<Cardinality(top) + Cardinality(nested)>>
                /\ i = Len(recorder.trace) => documents = entry.after)

\* one document goes by its own uri, one by a nested item that is not its
\* first, and a document of another uri stays
C20_Witness ==
    /\ Len(recorder.trace) = MaxMessages
    /\ recorder.trace[Len(recorder.trace)].msg = Message("del", FilePayload("u2"))
    /\ recorder.trace[Len(recorder.trace)].deletion_count = <<2>>
    /\ Content(recorder.trace[Len(recorder.trace)].before)
         = {FilePayload("u2"), MixedPayload("u1", <<"u1", "u2">>)}
    /\ documents = {}
    /\ HasLevel(log, "ERROR")


\* the step handles one delivered message
Handled ==
    /\ recorder.pc = "running"
    /\ Len(recorder'.trace) = Len(recorder.trace) + 1

\* what the step that handles a message records of it
LastEntry == recorder'.trace[Len(recorder'.trace)]

\* the entry is a deletion that ran and did not delete exactly one document
Anomaly(entry) ==
    /\ entry.msg.type = "del"
    /\ entry.deletion_count # <<>>
    /\ entry.deletion_count # <<1>>

\* C21: for a del message the recorder logs an error exactly when the
\* combined deleted count is not 1, be it 0 or 2 and more.
C21_ErrorUnlessExactlyOne ==
    \A i \in DOMAIN recorder.trace :
        LET entry == recorder.trace[i] IN
        (entry.msg.type = "del" /\ entry.deletion_count # <<>>)
            => (HasLevel(entry.log, "ERROR") <=> entry.deletion_count # <<1>>)

\* C22: a del message whose combined deleted count is not 1 ends neither
\* the loop nor the context: the client stays stored and open, and the next
\* message is handled on the collection as that deletion left it.
C22_AnomalyNotFatal ==
    [][ (Handled /\ Anomaly(LastEntry))
        => (/\ recorder'.pc = "running"
            /\ LastEntry.ending = "return"
            /\ outcome'.op = "record_message"
            /\ outcome'.kind = "return"
            /\ client # None
            /\ client.id \in live_clients'
            /\ documents' = LastEntry.after
            /\ UNCHANGED <<gateway, live_clients, created, context>>) ]_vars

\* a deletion of nothing, then a file message and its deletion handled as
\* usual
C22_Witness ==
    /\ Len(recorder.trace) = 3
    /\ recorder.trace[1].msg = Message("del", FilePayload("u1"))
    /\ recorder.trace[1].deletion_count = <<0>>
    /\ recorder.trace[2].msg = Message("file", FilePayload("u1"))
    /\ Content(recorder.trace[2].after) = {FilePayload("u1")}
    /\ recorder.trace[3].msg = Message("del", FilePayload("u1"))
    /\ recorder.trace[3].deletion_count = <<1>>
    /\ recorder.pc = "running"
    /\ client # None
    /\ client.id \in live_clients

HandledInOrder ==
    \A i \in DOMAIN recorder.trace :
        /\ recorder.trace[i].before =
              (IF i = 1 THEN {} ELSE recorder.trace[i - 1].after)
        /\ i = Len(recorder.trace) => documents = recorder.trace[i].after

\* file and dataset messages are never merged with a document already held
NeverDeduplicated ==
    \A i \in DOMAIN recorder.trace :
        recorder.trace[i].msg.type \in {"file", "dataset"}
            => Cardinality(recorder.trace[i].after)
                  = Cardinality(recorder.trace[i].before) + 1

-----------------------------------------------------------------------------
(* Properties of the queries route, stated for QueriesSpec *)

\* the appended time stage of the last request
TimeStage == pipelines[Len(pipelines)].pairs[1][2]

\* time lies between the two bounds, both included
InRange(time, time_min, time_max) ==
    time.t >= time_min.t /\ time.t <= time_max.t

\* the documents the last request returned
Returned_ids(docs) == { d \in docs : Str(ToString(d._id)) \in result.ids }

\* C25: given both time_min and time_max, the time stage the route appends
\* holds of a document exactly when its start_time lies within the two
\* bounds or its end_time lies within the two bounds.
C25_TimeRangeStage ==
    (/\ outcome.op = "queries"
     /\ outcome.arg.time_min # None
     /\ outcome.arg.time_max # None)
        => \A d \in TestDocuments :
              matches(TimeStage, d.data)
                <=> (\/ InRange(d.data.start_time, outcome.arg.time_min,
                                outcome.arg.time_max)
                     \/ InRange(d.data.end_time, outcome.arg.time_min,
                                outcome.arg.time_max))

\* C26: with time_min alone no returned document ends before time_min, and
\* with time_max alone no returned document starts after time_max: the
\* absent bound does not make the time stage hold of every document.
C26_SingleTimeBound ==
    outcome.op = "queries"
        => (/\ (outcome.arg.time_min # None /\ outcome.arg.time_max = None)
                 => \A d \in Returned_ids(documents) :
                        d.data.end_time.t >= outcome.arg.time_min.t
            /\ (outcome.arg.time_min = None /\ outcome.arg.time_max # None)
                 => \A d \in Returned_ids(documents) :
                        d.data.start_time.t <= outcome.arg.time_max.t)

-----------------------------------------------------------------------------
(* Properties of the pipeline classes, stated for PipelineSpec *)

\* the store operator a comparison symbol stands for
StoreOperator(symbol) ==
    CASE symbol = ">=" -> "$gte"
      [] symbol = ">" -> "$gt"
      [] symbol = "<=" -> "$lte"
      [] symbol = "<" -> "$lt"

RangeComparisons == {">=", ">", "<=", "<"}

\* the document {field: {operator: value}}
Leaf(field, operator, value) == Dict(<< <<field, Dict(<< <<operator, value>> >>)>> >>)

\* C27: in either module, a range comparison of an attribute with one value
\* that is not falsy is the leaf {field: {op: v}} with op the store operator
\* of the symbol, and with a list of values it is {$or: [...]} of one such
\* leaf per value in the order of the list.
C27_OperatorRendering ==
    (outcome.op = "compare" /\ outcome.arg.symbol \in RangeComparisons)
        => LET key == outcome.arg.key
               other == outcome.arg.other
               operator == StoreOperator(outcome.arg.symbol)
           IN
           IF is_list(other)
           THEN result = Dict(<< <<"$or",
                    List([i \in DOMAIN other.elements |->
                            Leaf(key, operator, other.elements[i])])>> >>)
           ELSE truthy(other) => result = Leaf(key, operator, other)

\* the values that are no list
Scalars == { v \in Values : ~is_list(v) }

\* C28: an attribute compared by == with a list of two values is the node
\* that | builds of the two single comparisons, and compared by == with a
\* value that is no list it is the single leaf {k: v}.
C28_EqualityLaw ==
    /\ \A k \in Keys, v1 \in Scalars, v2 \in Scalars :
          /\ PipelineAttribute_eq(k, List(<<v1, v2>>))
                = PipelineBooleanDict_or(PipelineAttribute_eq(k, v1),
                                         PipelineAttribute_eq(k, v2))
          /\ PipelineAttribute_eq(k, v1) = Dict(<< <<k, v1>> >>)
    /\ (outcome.op = "compare" /\ outcome.arg.symbol = "==")
          => LET key == outcome.arg.key
                 other == outcome.arg.other
             IN
             IF is_list(other)
             THEN result = PipelineBooleanDict_or(
                               Dict(<< <<key, other.elements[1]>> >>),
                               Dict(<< <<key, other.elements[2]>> >>))
             ELSE result = Dict(<< <<key, other>> >>)

\* the comparison with a list of two values has been made
C28_Witness ==
    /\ outcome.op = "compare"
    /\ outcome.arg.symbol = "=="
    /\ outcome.arg.other = List(<<Str("A"), Str("B")>>)
    /\ result = Dict(<< <<"$or", List(<< Dict(<< <<"letter", Str("A")>> >>),
                                          Dict(<< <<"letter", Str("B")>> >>) >>)>> >>)

\* C29: a range comparison with None or another falsy value is the empty
\* predicate, and appending the empty predicate to a Pipelines object
\* changes the documents it matches in no collection.
C29_RangeLaw ==
    [][ /\ (/\ outcome'.op = "compare"
            /\ outcome'.arg.symbol \in RangeComparisons
            /\ ~is_list(outcome'.arg.other)
            /\ ~truthy(outcome'.arg.other))
           => result' = Dict(<<>>)
        /\ (outcome'.op = "iadd" /\ outcome'.arg.other = Dict(<<>>))
           => (/\ Len(pipelines') = Len(pipelines) + 1
               /\ \A docs \in SUBSET TestDocuments :
                     aggregate(docs, pipelines') = aggregate(docs, pipelines)) ]_vars

\* the empty predicate of a comparison with None is appended after a stage
\* that does not match every document
C29_Witness ==
    /\ outcome.op = "iadd"
    /\ outcome.arg.other = PipelineAttribute_le("end_time", None)
    /\ outcome.arg.other = Dict(<<>>)
    /\ Len(pipelines) = 2
    /\ aggregate(TestDocuments, pipelines) # TestDocuments
    /\ aggregate(TestDocuments, pipelines) # {}

\* C30: a | b is {$or: [a, b]} and a & b is {$and: [a, b]}, of exactly two
\* operands, the left one first, each as it was; composed again with c the
\* node nests as the left operand of the new one.
C30_BooleanComposition ==
    [][ outcome'.op = "combine"
        => LET left == outcome'.arg.left
               right == outcome'.arg.right
               key == IF outcome'.arg.symbol = "|" THEN "$or" ELSE "$and"
           IN
           /\ result' = Dict(<< <<key, List(<<left, right>>)>> >>)
           /\ Len(result'.pairs) = 1
           /\ Len(result'.pairs[1][2].elements) = 2
           /\ result'.pairs[1][2].elements[1] = left
           /\ result'.pairs[1][2].elements[2] = right
           /\ (outcome.op = "combine" /\ left = result)
                => result'.pairs[1][2].elements[1].pairs[1][2].elements
                      = <<outcome.arg.left, outcome.arg.right>> ]_vars

\* a | b | c
C30_Witness ==
    LET a == PipelineBooleanDict(<< <<"number", Number(2)>> >>)
        b == PipelineBooleanDict(<< <<"kind", Number(1)>> >>)
        c == PipelineBooleanDict(<< <<"letter", Str("A")>> >>)
    IN
    /\ outcome.op = "combine"
    /\ result = Dict(<< <<"$or", List(<< Dict(<< <<"$or", List(<<a, b>>)>> >>), c >>)>> >>)


\* C31: pipelines += predicate puts exactly one stage {$match: predicate}
\* at the end: the length grows by one and the stages appended before keep
\* their content and their order.
C31_AppendOneStage ==
    [][ outcome'.op = "iadd"
        => /\ Len(pipelines') = Len(pipelines) + 1
           /\ SubSeq(pipelines', 1, Len(pipelines)) = pipelines
           /\ pipelines'[Len(pipelines')] = Dict(<< <<"$match", outcome'.arg.other>> >>)
           /\ result' = List(pipelines') ]_vars

\* two different predicates have been appended, the list predicate last
C31_Witness ==
    /\ outcome.op = "iadd"
    /\ pipelines = << Dict(<< <<"$match", PipelineAttribute_eq("platform_name", Str("PA"))>> >>),
                      Dict(<< <<"$match", PipelineAttribute_eq("sensor", List(<<Str("SA"), Str("SB")>>))>> >>) >>

-----------------------------------------------------------------------------
(* Properties of the error values *)

\* the status codes of error object e, in the order of its dict
codes(heap, e) == [i \in DOMAIN heap.objects[e] |-> heap.objects[e][i][1]]

\* the messages error object e holds under status code key, in order
messages(heap, e, key) ==
    LET i == position(heap.objects[e], key)
    IN IF i = 0 THEN <<>> ELSE listify(heap.lists, heap.objects[e][i][2])

\* the elements of sequence s that are not in sequence t, in the order of s
RECURSIVE without(_, _)
without(s, t) ==
    IF s = <<>> THEN <<>>
    ELSE IF \E j \in DOMAIN t : t[j] = Head(s) THEN without(Tail(s), t)
    ELSE <<Head(s)>> \o without(Tail(s), t)

\* all status codes the model's errors hold
AllCodes == {404, 422}

\* C32: the union self | other holds, under every status code, the messages
\* of self followed by the messages of other, none lost, and its status
\* codes are those of self followed by the new ones of other; the union of
\* a group of two members is the | of the two.
C32_UnionLosesNoPair ==
    [][ /\ outcome'.op = "or"
           => LET self == outcome'.arg.self
                  other == outcome'.arg.other
              IN
              /\ codes(errors', result'.ref)
                    = codes(errors, self) \o without(codes(errors, other), codes(errors, self))
              /\ \A key \in AllCodes :
                    messages(errors', result'.ref, key)
                        = messages(errors, self, key) \o messages(errors, other, key)
        /\ (outcome'.op = "union" /\ Len(Groups[outcome'.arg]) = 2)
           => \A key \in AllCodes :
                 messages(errors', result'.ref, key)
                     = messages(errors, Groups[outcome'.arg][1], key)
                          \o messages(errors, Groups[outcome'.arg][2], key) ]_vars

\* C33: get_error_details returns (status_code, message) or raises as the
\* number of stored status codes and the requested code tell: one stored
\* code and none requested gives that pair, several stored codes and none
\* requested a ValueError, a requested code that is not stored a KeyError,
\* and a requested code that is stored its pair; whatever the error holds
\* under the code, a str or the list a union makes.
C33_ErrorDetails ==
    outcome.op = "get_error_details"
    => LET dict == errors.objects[outcome.arg.self]
           status_code == outcome.arg.status_code
       IN
       /\ (status_code = None /\ Len(dict) = 1)
             => (outcome.kind = "return" /\ result.status_code = dict[1][1])
       /\ (status_code = None /\ Len(dict) > 1)
             => outcome.kind = "ValueError"
       /\ (status_code # None /\ position(dict, status_code.number) = 0)
             => outcome.kind = "KeyError"
       /\ (status_code # None /\ position(dict, status_code.number) # 0)
             => (outcome.kind = "return" /\ result.status_code = status_code.number)

\* C40: self | other makes a new error object and changes the content of
\* no error object that existed before, its operands and the predefined
\* constants included.
C40_UnionIsPure ==
    [][ outcome'.op = "or"
        => /\ Len(errors'.objects) = Len(errors.objects) + 1
           /\ result'.ref = Len(errors'.objects)
           /\ \A e \in DOMAIN errors.objects :
                 /\ codes(errors', e) = codes(errors, e)
                 /\ \A key \in AllCodes :
                       messages(errors', e, key) = messages(errors, e, key) ]_vars

-----------------------------------------------------------------------------
(* Properties of the recorder: the older message type, total handling and  *)
(* the deletion count                                                      *)

\* C34: when a file message is followed by a message of type delete with
\* the same uri, no document with that uri is left in the collection after
\* the recorder handled both.
C34_FileThenDeleteLeavesNone ==
    \A j \in DOMAIN recorder.trace :
        (/\ j > 1
         /\ recorder.trace[j - 1].msg.type = "file"
         /\ recorder.trace[j].msg.type = "delete"
         /\ "uri" \in DOMAIN recorder.trace[j - 1].msg.data
         /\ "uri" \in DOMAIN recorder.trace[j].msg.data
         /\ recorder.trace[j].msg.data.uri = recorder.trace[j - 1].msg.data.uri)
        => \A d \in recorder.trace[j].after :
              ~matches_uri(d.data, recorder.trace[j].msg.data.uri)

\* C38: no delivered message ends the loop early: the body of the loop
\* returns for every message, a file or del payload without a uri key and a
\* dataset payload without a dataset key included, so the recorder goes on
\* to the end of the stream.
C38_EveryMessageHandled ==
    /\ \A i \in DOMAIN recorder.trace : recorder.trace[i].ending = "return"
    /\ (recorder.pc = "done" /\ recorder.trace # <<>>)
          => outcome.kind = "return"

\* C39: the count delete_uri_from_collection returns is the number of
\* documents the call removed: every document is counted once, also one
\* that matches the uri both at top level and in its dataset, and the
\* collection shrinks by exactly the count.
C39_CountIsDocumentsRemoved ==
    \A i \in DOMAIN recorder.trace :
        LET entry == recorder.trace[i] IN
        entry.deletion_count # <<>>
        => /\ entry.after \subseteq entry.before
           /\ entry.deletion_count = <<Cardinality(entry.before \ entry.after)>>
           /\ Cardinality(entry.after)
                 = Cardinality(entry.before) - entry.deletion_count[1]
           /\ entry.before \ entry.after
                 = { d \in entry.before :
                        \/ matches_uri(d.data, entry.msg.data.uri)
                        \/ matches_dataset_uri(d.data, entry.msg.data.uri) }

\* of two documents held a deletion removed exactly one, which matches the
\* uri both at top level and in its dataset, and returned the count 1
C39_Witness ==
    \E i \in DOMAIN recorder.trace :
        LET entry == recorder.trace[i] IN
        /\ entry.deletion_count = <<1>>
        /\ Cardinality(entry.before) = 2
        /\ \E d \in entry.before \ entry.after :
              /\ matches_uri(d.data, entry.msg.data.uri)
              /\ matches_dataset_uri(d.data, entry.msg.data.uri)

-----------------------------------------------------------------------------
(* Properties of the gateway: contexts on an open gateway and the stored   *)
(* handles                                                                 *)

\* the gateway holds an open connection and its config
OwnerConnected ==
    /\ client # None
    /\ database_config # None
    /\ client.id \in live_clients

\* C35: a mongodb_context whose initialize opened no connection, because it
\* was the same-config no-op on an open gateway or was rejected with
\* ReinitializeConfigError, leaves the connection it found stored and open
\* when it ends.
C35_ContextKeepsForeignConnection ==
    [][ /\ (/\ OwnerConnected
            /\ context.state = "in"
            /\ context'.state = "out"
            /\ context.opened = 0)
           => (client' = client /\ client.id \in live_clients')
        /\ (/\ OwnerConnected
            /\ context.state = "out"
            /\ outcome'.op = "mongodb_context"
            /\ outcome'.error = Client_ReinitializeConfigError)
           => (client' = client /\ client.id \in live_clients') ]_vars

\* C37: whenever a config is stored, the stored main database and main
\* collection are handles of the stored client named as the config names
\* them, the names are in the listings of the store, and main_database()
\* and main_collection() return these handles.
C37_StoredHandlesMatchConfig ==
    database_config # None
    => /\ client # None
       /\ main_database = get_database_handle(client, database_config.main_database_name)
       /\ main_collection
             = get_collection_handle(main_database, database_config.main_collection_name)
       /\ database_config.main_database_name \in ServerDatabaseNames
       /\ database_config.main_collection_name
             \in ServerCollections[database_config.main_database_name]
       /\ outcome.op = "main_database" => result = main_database
       /\ outcome.op = "main_collection" => result = main_collection

\* main_collection() answered on a gateway that was closed and initialized
\* again: the handle is one of the second client
C37_Witness ==
    /\ database_config # None
    /\ outcome.op = "main_collection"
    /\ result.kind = "collection"
    /\ result.client = 2
    /\ client.id = 2

-----------------------------------------------------------------------------
(* Properties of overlapping initialize calls *)

\* every call has ended and one of them started while another was suspended
OverlapEnded ==
    /\ \A c \in Calls : calls[c].pc = "done"
    /\ \E c \in Calls : calls[c].overlapped

\* C36: when initialize calls overlapped, exactly one client was created
\* and it is the one stored and open; a call that started during another
\* call with a different config ended with ReinitializeConfigError; and
\* the stored client, config and main handles are those of one call.
C36_OverlapOpensOneConnection ==
    OverlapEnded
    => /\ created = 1
       /\ live_clients = {client.id}
       /\ \A c, k \in Calls :
             (calls[c].overlapped /\ ~calls[k].overlapped /\ calls[c].cfg # calls[k].cfg)
             => calls[c].ending.error = Client_ReinitializeConfigError
       /\ database_config # None
             => \E c \in Calls :
                   /\ calls[c].cfg = database_config
                   /\ calls[c].opened = client.id
                   /\ main_database
                         = get_database_handle(client, database_config.main_database_name)
                   /\ main_collection
                         = get_collection_handle(main_database,
                                                 database_config.main_collection_name)

=============================================================================
